---- MODULE Spec2Model ----
(***************************************************************************)
(* OnTheGo (abell35213/onthego): the browser application's view and map    *)
(* lifecycle: App (view switching, trip selector, search context),         *)
(* MapModule (local Leaflet surface: search-center pin, result markers),   *)
(* API.fetchRestaurants (asynchronous restaurant fetches) and the date     *)
(* helpers of the trip selector.                                           *)
(*                                                                         *)
(* Conventions of the model                                                *)
(*  - Instants are whole hours since 1970-01-01T00:00Z (the value of       *)
(*    Date.getTime() divided by 3600000).  NaN is the time value of an     *)
(*    Invalid Date.                                                        *)
(*  - tz is the browser's offset from UTC in hours (local = UTC + tz).     *)
(*  - A date string is a record [kind, y, m, d]: kind "iso" is the text   *)
(*    "YYYY-MM-DD", kind "text" is a string Date cannot parse, kind        *)
(*    "none" is a missing (undefined or empty) string.                     *)
(*  - A coordinate pair is one number; NonFinite stands for a pair with a  *)
(*    missing or NaN member.                                               *)
(***************************************************************************)
EXTENDS Integers, Sequences, FiniteSets, TLC

VARIABLES
    \* ---- environment: data tables of config.js, clock, libraries ----
    MOCK_UPCOMING_TRIPS,        \* config.js: upcoming trips (sequence of trips)
    MOCK_TRAVEL_HISTORY,        \* config.js: past trips (sequence of trips)
    now,                        \* the instant new Date() returns
    tz,                         \* the browser's time zone offset
    leaflet,                    \* typeof L !== 'undefined'
    cesium,                     \* the Cesium library: "ok", "throws" (loaded,
                                \* but the Viewer cannot be constructed) or
                                \* "missing" (typeof Cesium === 'undefined')
    present,                    \* the ids document.getElementById finds
    \* ---- App ----
    pc,                         \* "boot" before App.init has run, then "ready"
    currentView,                \* App.currentView
    locationControlsInitialized,\* App.locationControlsInitialized
    activeSearchContext,        \* App.activeSearchContext
    \* ---- DOM ----
    display,                    \* style.display of the three view containers
    selectValue,                \* #tripLocationSelect value
    activeLabel,                \* #activeLocationLabel text (the date range part)
    \* ---- MapModule ----
    map,                        \* MapModule.map exists
    mapCenter,                  \* center of the Leaflet view
    mapLayers,                  \* the markers currently added to the Leaflet map
    markers,                    \* MapModule.markers
    userMarker,                 \* MapModule.userMarker
    userLocation,               \* MapModule.userLocation
    searchAreaBtn,              \* the "Search This Area" button is displayed
    popup,                      \* the marker whose popup is open on the map
    geolocation,                \* 'geolocation' in navigator
    geoPending,                 \* getCurrentPosition requests not yet answered
    geoLog,                     \* code of the last geolocation error logged
    lastCenterCall,             \* arguments of the last direct call of
                                \* MapModule.setSearchCenter
    \* ---- WorldMap ----
    viewer,                     \* WorldMap.viewer is set
    worldLeaflet,               \* WorldMap._leafletMap is set
    entities,                   \* WorldMap.entities
    viewerEntities,             \* viewer.entities, the globe's collection
    restaurantEntities,         \* WorldMap.restaurantEntities
    cards,                      \* the .trip-card elements of the sidebar
    activeCards,                \* the cards whose classList has 'active'
    nearbyTimers,               \* pending setTimeout(showNearbyRestaurants)
    lastHighlight,              \* the trip of the last highlightTrip call
    camera,                     \* destination of the globe's camera
    \* ---- UI / API ----
    restaurants,                \* UI.restaurants, the sidebar list
    fetches,                    \* every API.fetchRestaurants call made so far
    \* ---- history: the view handler that ran last, and how it ended ----
    lastViewOp,
    lastError,                  \* "none", or the error it threw
    resizeTimers,               \* pending setTimeout(invalidateSize, 100),
                                \* each the container of its map surface
    \* ---- API.fetchRestaurants, seen from inside ----
    YELP_API_URL,               \* CONFIG.YELP_API_URL is a non-empty string
    apiCalls,                   \* the calls of API.fetchRestaurants, each with
                                \* the await it stands at and its outcome
    \* ---- server.js: the Yelp proxy ----
    YELP_API_KEY,               \* process.env.YELP_API_KEY is set
    serverNow,                  \* Date.now() of the server process
    cache,                      \* the Map cache, as its set of entries
    exchanges,                  \* the requests to /api/yelp-search, each
                                \* with the response it has been given
    \* ---- server.js: the TripIt OAuth endpoints ----
    tripitOAuth,                \* TRIPIT_API_KEY and TRIPIT_API_SECRET are set
    tripitRequestTokens,        \* the Map of request tokens, as its entries
    tripitAccessTokens,         \* the Map of sessions, as its entries
    connects,                   \* the requests to /api/tripit/connect
    callbacks                   \* the requests to /api/tripit/callback

vars == <<MOCK_UPCOMING_TRIPS, MOCK_TRAVEL_HISTORY, now, tz, leaflet, pc,
          currentView, locationControlsInitialized, activeSearchContext,
          display, selectValue, activeLabel, map, mapCenter, mapLayers,
          markers, userMarker, userLocation, searchAreaBtn, restaurants,
          fetches, lastViewOp, YELP_API_URL, apiCalls,
          YELP_API_KEY, serverNow, cache, exchanges,
          geolocation, geoPending, geoLog, lastCenterCall,
          cesium, present, viewer, worldLeaflet, entities, viewerEntities,
          restaurantEntities, cards, activeCards, nearbyTimers, lastHighlight,
          camera,
          lastError, resizeTimers, popup,
          tripitOAuth, tripitRequestTokens, tripitAccessTokens, connects,
          callbacks>>

envVars == <<MOCK_UPCOMING_TRIPS, MOCK_TRAVEL_HISTORY, now, tz, leaflet,
             cesium, present>>

\* the world surface and its sidebar
worldVars == <<viewer, worldLeaflet, entities, viewerEntities,
               restaurantEntities, cards, activeCards, nearbyTimers,
               lastHighlight, camera>>

\* the state of the components no handler of App or MapModule writes
serviceVars == <<YELP_API_URL, apiCalls, YELP_API_KEY, serverNow, cache,
                 exchanges, tripitOAuth, tripitRequestTokens,
                 tripitAccessTokens, connects, callbacks>>

\* the geolocation requests of MapModule and the record of direct calls
geoVars == <<geolocation, geoPending, geoLog, lastCenterCall>>

apiVars == <<YELP_API_URL, apiCalls>>
proxyVars == <<YELP_API_KEY, serverNow, cache, exchanges>>
tripitVars == <<tripitOAuth, tripitRequestTokens, tripitAccessTokens,
                connects, callbacks>>

(***************************************************************************)
(* Bounds of the model                                                     *)
(***************************************************************************)
\* restaurant fetches started in one behaviour
MaxFetches == 3
\* getCurrentPosition requests outstanding at one time
MaxGps == 1
\* restaurants in one result list (ids 1..MaxResults)
MaxResults == 2
\* trips in each of the two lists drawn by the trip-selector specifications
MaxTrips == 2
\* timers of highlightTrip pending at one time
MaxTimers == 2
\* resize timers of toggleView pending at one time
MaxResize == 2

(***************************************************************************)
(* Date: the parts of the ECMAScript Date object the program uses          *)
(***************************************************************************)
NaN == -1

\* days from 1970-01-01 to the civil date y-m-d (proleptic Gregorian)
DaysFromCivil(y, m, d) ==
    LET yy  == IF m <= 2 THEN y - 1 ELSE y
        era == yy \div 400
        yoe == yy - era * 400
        mp  == (m + 9) % 12
        doy == (153 * mp + 2) \div 5 + d - 1
        doe == yoe * 365 + yoe \div 4 - yoe \div 100 + doy
    IN  era * 146097 + doe - 719468

\* the civil date of day number z
CivilFromDays(z) ==
    LET zz  == z + 719468
        era == zz \div 146097
        doe == zz - era * 146097
        yoe == (doe - doe \div 1460 + doe \div 36524 - doe \div 146096) \div 365
        doy == doe - (365 * yoe + yoe \div 4 - yoe \div 100)
        mp  == (5 * doy + 2) \div 153
        d   == doy - (153 * mp + 2) \div 5 + 1
        m   == IF mp < 10 THEN mp + 3 ELSE mp - 9
        y   == yoe + era * 400 + (IF m <= 2 THEN 1 ELSE 0)
    IN  [y |-> y, m |-> m, d |-> d]

IsoDate(y, m, d) == [kind |-> "iso", y |-> y, m |-> m, d |-> d]
TextDate == [kind |-> "text", y |-> 0, m |-> 0, d |-> 0]
NoDate == [kind |-> "none", y |-> 0, m |-> 0, d |-> 0]

\* new Date(str).getTime(): a date-only ISO string is midnight UTC of that
\* day; anything else the program meets is an Invalid Date
DateParse(s) ==
    IF s.kind = "iso" THEN DaysFromCivil(s.y, s.m, s.d) * 24 ELSE NaN

\* the local calendar day number an instant falls on
LocalDay(t, zone) == (t + zone) \div 24

\* date.setHours(0, 0, 0, 0): local midnight of the instant's local day
SetHoursZero(t, zone) ==
    IF t = NaN THEN NaN ELSE LocalDay(t, zone) * 24 - zone

\* getFullYear(), getMonth() + 1, getDate(): fields of the local day
LocalFields(t, zone) == CivilFromDays(LocalDay(t, zone))

\* toLocaleString('en-US', {month: 'short'})
MonthShort(m) ==
    <<"Jan", "Feb", "Mar", "Apr", "May", "Jun",
      "Jul", "Aug", "Sep", "Oct", "Nov", "Dec">>[m]


(***************************************************************************)
(* App.formatDateRange                                                     *)
(***************************************************************************)
\* The text formatDateRange returns, as the template used and the fields
\* printed into it in order; a field the template does not print is blank.
\*   "md-d,y"     "{sM} {sD}-{eD}, {sY}"
\*   "md-md,y"    "{sM} {sD} - {eM} {eD}, {sY}"
\*   "md,y-md,y"  "{sM} {sD}, {sY} - {eM} {eD}, {eY}"
\*   "raw"        "{raw1} - {raw2}"
DateText(form, sM, sD, sY, eM, eD, eY, raw1, raw2) ==
    [form |-> form, sM |-> sM, sD |-> sD, sY |-> sY,
     eM |-> eM, eD |-> eD, eY |-> eY, raw1 |-> raw1, raw2 |-> raw2]

NoText == DateText("", "", 0, 0, "", 0, 0, NoDate, NoDate)

FormatDateRange(startDateStr, endDateStr, zone) ==
    LET start == DateParse(startDateStr)
        end   == DateParse(endDateStr)
    IN  IF start = NaN \/ end = NaN
        THEN DateText("raw", "", 0, 0, "", 0, 0, startDateStr, endDateStr)
        ELSE
        LET s  == LocalFields(start, zone)
            e  == LocalFields(end, zone)
            sY == s.y
            eY == e.y
            sM == MonthShort(s.m)
            eM == MonthShort(e.m)
            sD == s.d
            eD == e.d
            sameYear  == sY = eY
            sameMonth == sameYear /\ s.m = e.m
        IN  IF sameYear /\ sameMonth
            THEN DateText("md-d,y", sM, sD, sY, "", eD, 0, NoDate, NoDate)
            ELSE IF sameYear
            THEN DateText("md-md,y", sM, sD, sY, eM, eD, 0, NoDate, NoDate)
            ELSE DateText("md,y-md,y", sM, sD, sY, eM, eD, eY, NoDate, NoDate)

(***************************************************************************)
(* Trips and the default selection (App.getNextUpcomingTrip)               *)
(***************************************************************************)
NonFinite == 0
Finite(c) == c # NonFinite

Trip(id, startDate, endDate, coord) ==
    [id |-> id, startDate |-> startDate, endDate |-> endDate, coord |-> coord]

\* null, where the program has a trip or null
NoTrip == Trip(0, NoDate, NoDate, NonFinite)

\* comparator (a, b) => new Date(a.startDate) - new Date(b.startDate);
\* a NaN difference counts as 0
CompareStart(a, b) ==
    LET x == DateParse(a.startDate)
        y == DateParse(b.startDate)
    IN  IF x = NaN \/ y = NaN THEN 0 ELSE x - y

\* the two comparators: (a, b) => start(a) - start(b) when desc is FALSE,
\* (a, b) => start(b) - start(a) when desc is TRUE
Compare(a, b, desc) == IF desc THEN CompareStart(b, a) ELSE CompareStart(a, b)

RECURSIVE InsertStable(_, _, _)
\* x placed after every element of the sorted s that does not follow it
InsertStable(x, s, desc) ==
    IF s = <<>> THEN <<x>>
    ELSE IF Compare(Head(s), x, desc) > 0 THEN <<x>> \o s
    ELSE <<Head(s)>> \o InsertStable(x, Tail(s), desc)

RECURSIVE SortStable(_, _)
\* Array.prototype.sort with one of the comparators (the sort is stable)
SortStable(s, desc) ==
    IF s = <<>> THEN <<>>
    ELSE InsertStable(s[Len(s)], SortStable(SubSeq(s, 1, Len(s) - 1), desc), desc)

\* .filter(t => t.startDate)
WithStartDate(trips) == SelectSeq(trips, LAMBDA t : t.startDate.kind # "none")

\* [...MOCK_UPCOMING_TRIPS].filter(...).sort((a, b) => start(a) - start(b))
UpcomingSorted(upcoming) == SortStable(WithStartDate(upcoming), FALSE)

\* the predicate of .find(): start.setHours(0,0,0,0) >= today
StartsTodayOrLater(t, today, zone) ==
    LET start == SetHoursZero(DateParse(t.startDate), zone)
    IN  start # NaN /\ start >= today

\* getNextUpcomingTrip without the "|| upcomingSorted[0]" fallback
GetNextUpcomingTrip_NoFallback(upcoming, instant, zone) ==
    LET today  == SetHoursZero(instant, zone)
        sorted == UpcomingSorted(upcoming)
        hits   == SelectSeq(sorted, LAMBDA t : StartsTodayOrLater(t, today, zone))
    IN  IF hits # <<>> THEN hits[1] ELSE NoTrip

GetNextUpcomingTrip(upcoming, instant, zone) ==
    LET today  == SetHoursZero(instant, zone)
        sorted == UpcomingSorted(upcoming)
        hits   == SelectSeq(sorted, LAMBDA t : StartsTodayOrLater(t, today, zone))
    IN  IF hits # <<>> THEN hits[1]
        ELSE IF sorted # <<>> THEN sorted[1]
        ELSE NoTrip

\* the past-trip fallback with the comparator's operands swapped
MostRecentPast_Ascending(history) == SortStable(history, FALSE)[1]

\* [...MOCK_TRAVEL_HISTORY].sort(descending by start)[0]
MostRecentPast(history) == SortStable(history, TRUE)[1]


(***************************************************************************)
(* Views (App.toggleView, App.showTravelLog)                               *)
(***************************************************************************)
VIEW_MODE_WORLD == "world"
VIEW_MODE_LOCAL == "local"
\* app.js compares with and assigns CONFIG.VIEW_MODE_TRAVEL_LOG; whatever the
\* configuration holds there, it is a value other than the two above
VIEW_MODE_TRAVEL_LOG == "travel_log"

\* toggleView without its else-if for the travel log (the two-view chain)
ToggleBranch_TwoWay(view) ==
    IF view = VIEW_MODE_LOCAL THEN "toWorld" ELSE "toLocal"

\* the branch of toggleView's if / else if / else chain taken from a view
ToggleBranch(view) ==
    IF view = VIEW_MODE_LOCAL THEN "toWorld"
    ELSE IF view = VIEW_MODE_TRAVEL_LOG THEN "fromTravelLog"
    ELSE "toLocal"

\* toggleView cycling through the three views: leaving the local view
\* opens the travel log
ToggleTarget_Cycle(view) ==
    CASE ToggleBranch(view) = "toWorld"       -> VIEW_MODE_TRAVEL_LOG
      [] ToggleBranch(view) = "fromTravelLog" -> VIEW_MODE_WORLD
      [] OTHER                                -> VIEW_MODE_LOCAL

\* the value each branch assigns to this.currentView
ToggleTarget(view) ==
    CASE ToggleBranch(view) = "toWorld"       -> VIEW_MODE_WORLD
      [] ToggleBranch(view) = "fromTravelLog" -> VIEW_MODE_WORLD
      [] OTHER                                -> VIEW_MODE_LOCAL

\* toggleView without the statement that hides the travel log
ToggleDisplay_LogStaysShown(view, disp) ==
    CASE ToggleBranch(view) = "toWorld" ->
           [disp EXCEPT !.localView = "none", !.worldView = "flex"]
      [] ToggleBranch(view) = "fromTravelLog" ->
           [disp EXCEPT !.worldView = "flex"]
      [] OTHER ->
           [disp EXCEPT !.worldView = "none", !.localView = "flex"]

\* the style.display assignments of toggleView: the travel log is hidden
\* first, then each branch shows and hides its containers
ToggleDisplay(view, disp) ==
    LET hidden == [disp EXCEPT !.travelLogView = "none"]
    IN  CASE ToggleBranch(view) = "toWorld" ->
               [hidden EXCEPT !.localView = "none", !.worldView = "flex"]
          [] ToggleBranch(view) = "fromTravelLog" ->
               [hidden EXCEPT !.worldView = "flex"]
          [] OTHER ->
               [hidden EXCEPT !.worldView = "none", !.localView = "flex"]

\* the style.display assignments of showTravelLog
TravelLogDisplay(disp) ==
    [disp EXCEPT !.worldView = "none", !.localView = "none",
                 !.travelLogView = "flex"]

\* the ids the handlers look up with document.getElementById
Elements == {"worldView", "localView", "travelLogView", "viewToggle",
             "tripLocationSelect", "useGpsBtn"}

\* one statement of a view handler: it assigns value to target through the
\* element el ("" when it uses none); a guarded statement stands under
\* if (el), an unguarded one throws a TypeError when el is null
Statement(el, guarded, target, value) ==
    [el |-> el, guarded |-> guarded, target |-> target, value |-> value]

\* the statements of toggleView, in the order it executes them from a view
ToggleStatements(view) ==
    << Statement("travelLogView", TRUE, "travelLogView", "none") >> \o
    CASE ToggleBranch(view) = "toWorld" ->
           << Statement("localView", FALSE, "localView", "none"),
              Statement("worldView", FALSE, "worldView", "flex"),
              Statement("", FALSE, "currentView", VIEW_MODE_WORLD),
              Statement("viewToggle", FALSE, "innerHTML", "") >>
      [] ToggleBranch(view) = "fromTravelLog" ->
           << Statement("worldView", FALSE, "worldView", "flex"),
              Statement("", FALSE, "currentView", VIEW_MODE_WORLD),
              Statement("viewToggle", FALSE, "innerHTML", "") >>
      [] OTHER ->
           << Statement("worldView", FALSE, "worldView", "none"),
              Statement("localView", FALSE, "localView", "flex"),
              Statement("", FALSE, "currentView", VIEW_MODE_LOCAL),
              Statement("viewToggle", FALSE, "innerHTML", "") >>

\* the statements of showTravelLog
TravelLogStatements ==
    << Statement("worldView", FALSE, "worldView", "none"),
       Statement("localView", FALSE, "localView", "none"),
       Statement("travelLogView", TRUE, "travelLogView", "flex"),
       Statement("", FALSE, "currentView", VIEW_MODE_TRAVEL_LOG),
       Statement("viewToggle", FALSE, "innerHTML", "") >>

\* the statements that throw with these elements in the document
Throwing(stmts, found) ==
    {i \in 1..Len(stmts) :
        ~stmts[i].guarded /\ stmts[i].el # "" /\ stmts[i].el \notin found}

\* how many statements run before the handler ends: all of them, or those
\* before the first that throws
Completed(stmts, found) ==
    IF Throwing(stmts, found) = {} THEN Len(stmts)
    ELSE (CHOOSE i \in Throwing(stmts, found) :
              \A j \in Throwing(stmts, found) : i <= j) - 1

\* the statements among the first n that assign to target
Assigning(stmts, n, found, target) ==
    {i \in 1..n : stmts[i].target = target
                    /\ (stmts[i].el = "" \/ stmts[i].el \in found)}

\* the value of target after the first n statements, old before them
ValueAfter(stmts, n, found, target, old) ==
    LET w == Assigning(stmts, n, found, target)
    IN  IF w = {} THEN old
        ELSE stmts[CHOOSE i \in w : \A j \in w : j <= i].value

\* style.display of the view containers after the first n statements
DisplayAfter(stmts, n, found, disp) ==
    [c \in DOMAIN disp |-> ValueAfter(stmts, n, found, c, disp[c])]

(***************************************************************************)
(* Markers of the local surface (MapModule)                                *)
(***************************************************************************)
\* A Leaflet marker object.  kind "res" is a restaurant marker of restaurant
\* rid, kind "pin" the search-center pin at coordinate at; batch tells the
\* objects of different calls apart (the fetch that led to the marker).
Marker(kind, rid, batch, at) ==
    [kind |-> kind, rid |-> rid, batch |-> batch, at |-> at]

\* null, where the program has a marker or null
NoMarker == Marker("none", 0, 0, NonFinite)

Range(s) == {s[i] : i \in 1..Len(s)}

\* clearMarkers that only empties the array and removes no layer
ClearMarkersLayers_NoRemove(layers, ms) == layers

\* clearMarkers: map.removeLayer for every element of this.markers
ClearMarkersLayers(layers, ms) == layers \ Range(ms)

\* the forEach of addRestaurantMarkers: one new marker per restaurant, pushed
\* in list order
CreateRestaurantMarkers(list, batch) ==
    [i \in 1..Len(list) |-> Marker("res", list[i], batch, NonFinite)]

\* CONFIG.DEFAULT_LAT / CONFIG.DEFAULT_LNG
DEFAULT_COORD == 100

\* { type, tripId } of App.activeSearchContext and "type:id" of the select
Context(type, tripId) == [type |-> type, tripId |-> tripId]
NoContext == Context("", 0)

(***************************************************************************)
(* API.fetchRestaurants calls                                              *)
(***************************************************************************)
\* One call: coord is its argument, status "pending" until its promise
\* resolves; replaces counts the addRestaurantMarkers calls made with its
\* result.
Fetch(coord) == [coord |-> coord, status |-> "pending", replaces |-> 0]

\* a search start that calls API.fetchRestaurants twice
StartFetch_Twice(fs, coord) == Append(Append(fs, Fetch(coord)), Fetch(coord))

\* onLocationReady / searchCurrentArea: await API.fetchRestaurants(lat, lng)
StartFetch(fs, coord) == Append(fs, Fetch(coord))

\* the lists a fetch can resolve with: restaurants 1..n, n <= MaxResults
ResultLists == {[i \in 1..n |-> i] : n \in 0..MaxResults}

\* the record of the view handler (toggleView, showTravelLog) that ran last:
\* its name, the view it started in, and the view from which the travel log
\* was last opened
Op(op, from, logFrom) == [op |-> op, from |-> from, logFrom |-> logFrom]


(***************************************************************************)
(* JavaScript values and the conversions the program applies to them       *)
(***************************************************************************)
\* A value as it arrives in a JSON body or an argument: t is its type (for
\* strings, what the text is: a decimal numeral, empty, or other text) and n
\* the number it is or spells.
JsValue(t, n) == [t |-> t, n |-> n]
JsUndefined == JsValue("undefined", 0)
JsNull == JsValue("null", 0)
JsNumber(n) == JsValue("number", n)
JsNaN == JsValue("NaN", 0)
JsInfinity == JsValue("Infinity", 0)
JsNumeral(n) == JsValue("numeral", n)
JsEmptyString == JsValue("emptyString", 0)
JsText == JsValue("text", 0)
JsTrue == JsValue("true", 1)
JsFalse == JsValue("false", 0)

\* Number(v): the number a value converts to; finite is Number.isFinite of it
ToNumber(v) ==
    CASE v.t \in {"number", "numeral"}            -> [finite |-> TRUE, n |-> v.n]
      [] v.t \in {"null", "emptyString", "false"} -> [finite |-> TRUE, n |-> 0]
      [] v.t = "true"                             -> [finite |-> TRUE, n |-> 1]
      [] OTHER                                    -> [finite |-> FALSE, n |-> 0]

\* !v is false
Truthy(v) ==
    CASE v.t = "number" -> v.n # 0
      [] v.t \in {"Infinity", "numeral", "text", "true"} -> TRUE
      [] OTHER -> FALSE

(***************************************************************************)
(* WorldMap: the globe, its trip entities, the nearby venues and the       *)
(* sidebar's trip cards                                                    *)
(***************************************************************************)
\* a trip of one of the two lists: highlightTrip(tripId, isPast)
TripKey(isPast, id) == [isPast |-> isPast, id |-> id]
NoKey == TripKey(FALSE, 0)

\* an entity of the globe: kind "trip" is a trip marker (it carries
\* tripData), kinds "hotel" and "venue" are the nearby markers of a trip
Entity(kind, trip, n) == [kind |-> kind, trip |-> trip, n |-> n]

\* generateNearbyRestaurants returns the eight venues of the trip's city
NearbyPerCity == 8

\* addTravelHistoryMarkers / addUpcomingTripMarkers: createTripEntity for
\* every trip of a list, in the list's order
TripEntities(list, isPast) ==
    [i \in 1..Len(list) |-> Entity("trip", TripKey(isPast, list[i].id), 0)]

\* a camera destination: a coordinate and a height in metres
Camera(at, height) == [at |-> at, height |-> height]
NoCamera == Camera(NonFinite, 0)
\* camera.setView of WorldMap.init: the whole globe
GlobeCamera == Camera(NonFinite, 20000000)

\* WorldMap.init without a fallback: the world layer is left disabled
\* whenever the viewer cannot be built
InitFallback2D_Disabled(hasLeaflet) == FALSE

\* initFallback2D(): this._leafletMap is created when Leaflet is loaded
InitFallback2D(hasLeaflet) == hasLeaflet

\* WorldMap.init(): the Cesium viewer with one entity per trip, or
\* initFallback2D() when Cesium is undefined or the construction throws
WorldMapInit ==
    IF cesium = "ok"
    THEN LET created == TripEntities(MOCK_TRAVEL_HISTORY, TRUE)
                            \o TripEntities(MOCK_UPCOMING_TRIPS, FALSE)
         IN  /\ viewer' = TRUE
             /\ worldLeaflet' = FALSE
             /\ entities' = created
             /\ viewerEntities' = {created[i] : i \in 1..Len(created)}
             /\ camera' = GlobeCamera
    ELSE \* initFallback2D: L.map('worldMap') with a tile layer
         /\ viewer' = FALSE
         /\ worldLeaflet' = InitFallback2D(leaflet)
         /\ entities' = <<>>
         /\ viewerEntities' = {}
         /\ camera' = camera

\* WorldMap.renderTripHistory() and renderUpcomingTrips(): one card per
\* trip in #tripHistory and in #upcomingTrips
RenderTripCards ==
    /\ cards' = {TripKey(TRUE, MOCK_TRAVEL_HISTORY[i].id) :
                    i \in 1..Len(MOCK_TRAVEL_HISTORY)}
                \cup {TripKey(FALSE, MOCK_UPCOMING_TRIPS[i].id) :
                        i \in 1..Len(MOCK_UPCOMING_TRIPS)}
    /\ activeCards' = {}

\* the cards.forEach of highlightTrip over the cards of the trip's own
\* list: 'active' is added to the trip's card and removed from the others
HighlightCards(active, all, key) ==
    LET listed == {c \in all : c.isPast = key.isPast}
    IN  (active \ listed) \cup {c \in listed : c.id = key.id}

\* the entities showNearbyRestaurants adds for a trip: the hotel and the
\* generated venues
NearbyEntities(trip) ==
    {Entity("hotel", trip, 0)}
        \cup {Entity("venue", trip, n) : n \in 1..NearbyPerCity}

(***************************************************************************)
(* Handlers.  A handler that calls another is written as the conjunction   *)
(* of its own assignments and the callee's; hasMap is the value of         *)
(* MapModule.map at the moment of the call.                                *)
(***************************************************************************)
searchVars == <<userLocation, mapCenter, searchAreaBtn, userMarker, mapLayers,
                popup,
                fetches>>

\* setSearchCenter without the removal of the previous pin
RemoveUserMarker_Kept(layers, pin) == layers

\* if (this.userMarker && this.map) this.map.removeLayer(this.userMarker)
RemoveUserMarker(layers, pin) == layers \ {pin}

\* MapModule.setSearchCenter(lat, lng, label)
SetSearchCenter(coord, hasMap) ==
    IF ~Finite(coord)
    THEN UNCHANGED searchVars
    ELSE /\ userLocation' = coord
         \* map.setView fires moveend, whose listener shows the button
         /\ mapCenter' = IF hasMap THEN coord ELSE mapCenter
         /\ searchAreaBtn' = (hasMap \/ searchAreaBtn)
         \* removeLayer(this.userMarker), then addUserMarker
         /\ IF hasMap
            THEN LET pin == Marker("pin", 0, Len(fetches) + 1, coord)
                 IN  /\ userMarker' = pin
                     \* addUserMarker: bindPopup(label).openPopup()
                     /\ popup' = pin
                     /\ mapLayers' = RemoveUserMarker(mapLayers, userMarker)
                                        \cup {pin}
            ELSE UNCHANGED <<userMarker, mapLayers, popup>>
         \* window.App.onLocationReady(latitude, longitude)
         /\ fetches' = StartFetch(fetches, coord)

\* the arguments of a direct call of setSearchCenter(lat, lng, label)
CenterCall(lat, lng) == [lat |-> lat, lng |-> lng]
NoCall == CenterCall(JsUndefined, JsUndefined)

\* the coordinate pair (latitude, longitude) of two numbers 0..9
PairCoord(latitude, longitude) == 200 + 10 * latitude + longitude

\* setSearchCenter without its validation
CenterArgsFinite_Unchecked(lat, lng) == TRUE

\* the validation of setSearchCenter: latitude = Number(lat), longitude =
\* Number(lng), both Number.isFinite
CenterArgsFinite(lat, lng) == ToNumber(lat).finite /\ ToNumber(lng).finite

\* MapModule.setSearchCenter(lat, lng, label) called with any two values
SetSearchCenterArgs(lat, lng, hasMap) ==
    IF ~CenterArgsFinite(lat, lng)
    THEN UNCHANGED searchVars
    ELSE SetSearchCenter(PairCoord(ToNumber(lat).n, ToNumber(lng).n), hasMap)

\* App.applyTripSelection(trip, type)
ApplyTripSelection(trip, type, hasMap) ==
    /\ activeLabel' = FormatDateRange(trip.startDate, trip.endDate, tz)
    /\ activeSearchContext' = Context(type, trip.id)
    /\ IF Finite(trip.coord)
       THEN SetSearchCenter(trip.coord, hasMap)
       ELSE UNCHANGED searchVars

selectionVars == <<selectValue, activeLabel, activeSearchContext, searchVars>>

\* a setup that forgets it has run
AlreadyInitialized_Never(flag) == FALSE

\* if (this.locationControlsInitialized) return;
AlreadyInitialized(flag) == flag

\* App.setupLocationControls()
SetupLocationControls(hasMap) ==
    IF AlreadyInitialized(locationControlsInitialized)
          \/ "tripLocationSelect" \notin present
    THEN UNCHANGED <<locationControlsInitialized, selectionVars>>
    ELSE LET defaultTrip == GetNextUpcomingTrip(MOCK_UPCOMING_TRIPS, now, tz)
         IN  /\ locationControlsInitialized' = TRUE
             /\ IF defaultTrip # NoTrip
                THEN /\ selectValue' = Context("upcoming", defaultTrip.id)
                     /\ ApplyTripSelection(defaultTrip, "upcoming", hasMap)
                ELSE IF Len(MOCK_TRAVEL_HISTORY) > 0
                THEN LET mostRecent == MostRecentPast(MOCK_TRAVEL_HISTORY)
                     IN  /\ selectValue' = Context("past", mostRecent.id)
                         /\ ApplyTripSelection(mostRecent, "past", hasMap)
                ELSE UNCHANGED selectionVars

\* App.init(): MapModule.init() creates the map when Leaflet is loaded, then
\* setupLocationControls(); the view containers are left as the page has them
AppInit ==
    /\ pc = "boot"
    /\ pc' = "ready"
    /\ map' = leaflet
    /\ SetupLocationControls(leaflet)
    /\ WorldMapInit
    /\ RenderTripCards
    /\ UNCHANGED <<restaurantEntities, nearbyTimers, lastHighlight>>
    /\ UNCHANGED <<serviceVars, geoVars, lastError, resizeTimers, lastViewOp, envVars, currentView, display, markers, restaurants>>

\* the container whose map toggleView resizes after 100 ms: the local map
\* when the local view is opened and MapModule.map exists, the world's 2D
\* map when the world view is opened and WorldMap._leafletMap exists
ResizedSurface(branch) ==
    IF branch = "toLocal" THEN (IF map THEN "localView" ELSE "")
    ELSE (IF worldLeaflet THEN "worldView" ELSE "")

\* App.toggleView(), the click handler of #viewToggle.  With every element
\* in the document all statements run; otherwise the handler ends at the
\* first statement that dereferences a missing element
ToggleView ==
    LET stmts == ToggleStatements(currentView)
        n == Completed(stmts, present)
        done == n = Len(stmts)
    IN  /\ pc = "ready"
        /\ display' = IF Elements \subseteq present
                      THEN ToggleDisplay(currentView, display)
                      ELSE DisplayAfter(stmts, n, present, display)
        /\ currentView' = IF done THEN ToggleTarget(currentView)
                          ELSE ValueAfter(stmts, n, present, "currentView",
                                          currentView)
        /\ lastError' = IF done THEN "none" ELSE "TypeError"
        /\ IF done /\ ToggleBranch(currentView) = "toLocal"
           THEN SetupLocationControls(map)
           ELSE UNCHANGED <<locationControlsInitialized, selectionVars>>
        /\ IF done /\ ResizedSurface(ToggleBranch(currentView)) # ""
           THEN /\ Len(resizeTimers) < MaxResize
                /\ resizeTimers' = Append(resizeTimers,
                                       ResizedSurface(ToggleBranch(currentView)))
           ELSE UNCHANGED resizeTimers
        /\ lastViewOp' = Op("toggleView", currentView, lastViewOp.logFrom)
        /\ UNCHANGED <<serviceVars, geoVars, worldVars, envVars, pc, map, markers, restaurants>>

\* App.showTravelLog(), the click handler of #travelLogBtn
ShowTravelLog ==
    /\ pc = "ready"
    /\ display' = IF Elements \subseteq present
                  THEN TravelLogDisplay(display)
                  ELSE DisplayAfter(TravelLogStatements,
                                    Completed(TravelLogStatements, present),
                                    present, display)
    /\ currentView' = ValueAfter(TravelLogStatements,
                                 Completed(TravelLogStatements, present),
                                 present, "currentView", currentView)
    /\ lastError' = IF Throwing(TravelLogStatements, present) = {}
                    THEN "none" ELSE "TypeError"
    /\ lastViewOp' = Op("showTravelLog", currentView,
                    IF currentView = VIEW_MODE_TRAVEL_LOG THEN lastViewOp.logFrom
                    ELSE currentView)
    /\ UNCHANGED <<serviceVars, geoVars, worldVars, envVars, pc, locationControlsInitialized, selectionVars,
                   map, markers, restaurants, resizeTimers>>

\* a timer of toggleView fires: invalidateSize() of the surface's map
ResizeTimerFires ==
    /\ resizeTimers # <<>>
    /\ resizeTimers' = Tail(resizeTimers)
    /\ UNCHANGED <<serviceVars, geoVars, worldVars, envVars, pc, currentView,
                   display, lastError, lastViewOp,
                   locationControlsInitialized, selectionVars, map, markers,
                   restaurants>>

\* the trip with this id in a list (list.find(t => t.id === id))
TripsWithId(list, id) == SelectSeq(list, LAMBDA t : t.id = id)

\* the change listener of #tripLocationSelect, for the option type:id
SelectChange(type, id) ==
    LET list == IF type = "upcoming" THEN MOCK_UPCOMING_TRIPS
                ELSE MOCK_TRAVEL_HISTORY
    IN  /\ pc = "ready"
        /\ locationControlsInitialized
        /\ Len(fetches) < MaxFetches
        /\ TripsWithId(list, id) # <<>>
        /\ selectValue' = Context(type, id)
        /\ ApplyTripSelection(TripsWithId(list, id)[1], type, map)
        /\ UNCHANGED <<serviceVars, geoVars, worldVars, lastError, resizeTimers, lastViewOp, envVars, pc, currentView, display,
                       locationControlsInitialized, map, markers, restaurants>>

\* MapModule.setSearchCenter is called directly with two values
SetSearchCenterCall(lat, lng) ==
    /\ pc = "ready"
    /\ Len(fetches) < MaxFetches
    /\ lastCenterCall' = CenterCall(lat, lng)
    /\ SetSearchCenterArgs(lat, lng, map)
    /\ UNCHANGED <<serviceVars, worldVars, lastError, resizeTimers, geolocation, geoPending, geoLog, lastViewOp,
                   envVars, pc, currentView, display,
                   locationControlsInitialized, selectValue, activeLabel,
                   activeSearchContext, map, markers, restaurants>>

\* the click listener of #useGpsBtn: MapModule.requestUserLocation()
RequestUserLocation ==
    /\ pc = "ready"
    /\ locationControlsInitialized
    /\ "useGpsBtn" \in present
    /\ IF geolocation
       THEN \* navigator.geolocation.getCurrentPosition(success, error, ...)
            /\ geoPending < MaxGps
            /\ geoPending' = geoPending + 1
            /\ UNCHANGED fetches
       ELSE \* no search center yet: onLocationReady(DEFAULT_LAT, DEFAULT_LNG)
            /\ Len(fetches) < MaxFetches
            /\ fetches' = IF userLocation = NonFinite
                          THEN StartFetch(fetches, DEFAULT_COORD)
                          ELSE fetches
            /\ UNCHANGED geoPending
    /\ UNCHANGED <<serviceVars, worldVars, lastError, resizeTimers, geolocation, geoLog, lastCenterCall, lastViewOp,
                   envVars, pc, currentView, display,
                   locationControlsInitialized, selectValue, activeLabel,
                   activeSearchContext, userLocation, userMarker, mapLayers, popup,
                   mapCenter, searchAreaBtn, map, markers, restaurants>>

\* the success callback of getCurrentPosition: setSearchCenter(latitude,
\* longitude, 'My Location')
GeolocationSuccess(coord) ==
    /\ pc = "ready"
    /\ geoPending > 0
    /\ Len(fetches) < MaxFetches
    /\ geoPending' = geoPending - 1
    /\ SetSearchCenter(coord, map)
    /\ UNCHANGED <<serviceVars, worldVars, lastError, resizeTimers, geolocation, geoLog, lastCenterCall, lastViewOp,
                   envVars, pc, currentView, display,
                   locationControlsInitialized, selectValue, activeLabel,
                   activeSearchContext, map, markers, restaurants>>

\* the error callback with the default location taken on every error
ErrorFallback_Default(location) == DEFAULT_COORD

\* the coordinate the error callback of getCurrentPosition searches
\* instead: none, the callback logs and returns
ErrorFallback(location) == NonFinite

\* the error callback of getCurrentPosition: handleGeolocationError(error)
GeolocationError(code) ==
    /\ pc = "ready"
    /\ geoPending > 0
    /\ Len(fetches) < MaxFetches
    /\ geoPending' = geoPending - 1
    /\ geoLog' = code
    /\ IF Finite(ErrorFallback(userLocation))
       THEN /\ userLocation' = ErrorFallback(userLocation)
            /\ fetches' = StartFetch(fetches, ErrorFallback(userLocation))
       ELSE UNCHANGED <<userLocation, fetches>>
    /\ UNCHANGED <<serviceVars, worldVars, lastError, resizeTimers, geolocation, lastCenterCall, lastViewOp,
                   envVars, pc, currentView, display,
                   locationControlsInitialized, selectValue, activeLabel,
                   activeSearchContext, userMarker, mapLayers, popup,
                   mapCenter, searchAreaBtn, map, markers, restaurants>>

\* the user pans or zooms the visible local map: Leaflet fires moveend and
\* the listener registered in MapModule.init shows the button
MapMoveEnd(coord) ==
    /\ pc = "ready"
    /\ map
    /\ display.localView = "flex"
    /\ mapCenter' = coord
    /\ searchAreaBtn' = TRUE
    /\ UNCHANGED <<serviceVars, geoVars, worldVars, lastError, resizeTimers, lastViewOp, envVars, pc, currentView, display,
                   locationControlsInitialized, selectValue, activeLabel,
                   activeSearchContext, userLocation, userMarker, mapLayers, popup,
                   fetches, map, markers, restaurants>>

\* btn.onclick of the "Search This Area" button: MapModule.searchCurrentArea()
SearchCurrentArea ==
    /\ pc = "ready"
    /\ map
    /\ searchAreaBtn
    /\ display.localView = "flex"
    /\ Len(fetches) < MaxFetches
    /\ fetches' = StartFetch(fetches, mapCenter)
    /\ searchAreaBtn' = FALSE
    /\ UNCHANGED <<serviceVars, geoVars, worldVars, lastError, resizeTimers, lastViewOp, envVars, pc, currentView, display,
                   locationControlsInitialized, selectValue, activeLabel,
                   activeSearchContext, userLocation, userMarker, mapLayers, popup,
                   mapCenter, map, markers, restaurants>>

\* MapModule.addRestaurantMarkers(restaurants), called with the result of
\* fetch k
AddRestaurantMarkers(list, k) ==
    IF ~map
    THEN UNCHANGED <<markers, mapLayers, mapCenter, searchAreaBtn, popup>>
    ELSE /\ markers' = CreateRestaurantMarkers(list, k)
         \* a marker removed from the map takes its open popup with it
         /\ popup' = IF popup \in Range(markers) THEN NoMarker ELSE popup
         /\ mapLayers' = ClearMarkersLayers(mapLayers, markers)
                           \cup Range(markers')
         \* fitBounds over the markers and the pin moves the view
         /\ IF Len(list) > 0
            THEN /\ mapCenter' = fetches[k].coord
                 /\ searchAreaBtn' = TRUE
            ELSE UNCHANGED <<mapCenter, searchAreaBtn>>

\* UI.setRestaurants(restaurants): the sidebar list is replaced and the
\* local surface's markers are replaced with it
SetRestaurants(list, k) ==
    /\ restaurants' = [from |-> k, ids |-> list]
    /\ AddRestaurantMarkers(list, k)

\* the promise of fetch k resolves with list: the continuation of
\* onLocationReady / searchCurrentArea runs
FetchResolve(k, list) ==
    /\ pc = "ready"
    /\ k \in 1..Len(fetches)
    /\ fetches[k].status = "pending"
    /\ fetches' = [fetches EXCEPT ![k].status = "done", ![k].replaces = @ + 1]
    /\ SetRestaurants(list, k)
    /\ UNCHANGED <<serviceVars, geoVars, worldVars, lastError, resizeTimers, lastViewOp, envVars, pc, currentView, display,
                   locationControlsInitialized, selectValue, activeLabel,
                   activeSearchContext, userLocation, userMarker, map>>

\* restaurant.coordinates of the restaurant with an id
RestaurantCoord(rid) == 300 + rid

\* restaurants.indexOf(restaurants.find(r => r.id === restaurantId)) + 1,
\* or 0 when the list has no such restaurant or this.markers is shorter
MarkerIndex(restaurantId, list, ms) ==
    LET found == {i \in 1..Len(list) : list[i] = restaurantId}
        first == CHOOSE i \in found : \A j \in found : i <= j
    IN  IF found = {} THEN 0
        ELSE IF first <= Len(ms) THEN first ELSE 0

\* MapModule.openMarkerPopup(restaurantId, restaurants): marker.openPopup()
\* and panToRestaurant, whose setView fires moveend
OpenMarkerPopup(restaurantId, list) ==
    LET index == MarkerIndex(restaurantId, list, markers)
    IN  /\ pc = "ready"
        /\ IF index = 0
           THEN UNCHANGED <<popup, mapCenter, searchAreaBtn>>
           ELSE /\ popup' = markers[index]
                /\ mapCenter' = IF map THEN RestaurantCoord(restaurantId)
                                ELSE mapCenter
                /\ searchAreaBtn' = (map \/ searchAreaBtn)
        /\ UNCHANGED <<serviceVars, geoVars, worldVars, lastError,
                       resizeTimers, lastViewOp, envVars, pc, currentView,
                       display, locationControlsInitialized, selectValue,
                       activeLabel, activeSearchContext, userLocation,
                       userMarker, mapLayers, fetches, map, markers,
                       restaurants>>

\* everything outside WorldMap
notWorldVars == <<envVars, serviceVars, geoVars, lastError, resizeTimers, lastViewOp, pc,
                  currentView, display, locationControlsInitialized,
                  selectionVars, map, markers, restaurants>>

\* WorldMap.highlightTrip(tripId, isPast), called by the click on the
\* trip's card or on its marker
HighlightTrip(tripId, isPast) ==
    LET key == TripKey(isPast, tripId)
        trips == IF isPast THEN MOCK_TRAVEL_HISTORY ELSE MOCK_UPCOMING_TRIPS
    IN  /\ pc = "ready"
        /\ key \in cards \/ Entity("trip", key, 0) \in viewerEntities
        /\ IF TripsWithId(trips, tripId) # <<>> /\ viewer
           THEN \* camera.flyTo, then setTimeout(showNearbyRestaurants, 2200)
                /\ Len(nearbyTimers) < MaxTimers
                /\ camera' = Camera(TripsWithId(trips, tripId)[1].coord, 50000)
                /\ nearbyTimers' = Append(nearbyTimers, key)
           ELSE UNCHANGED <<camera, nearbyTimers>>
        /\ activeCards' = HighlightCards(activeCards, cards, key)
        /\ lastHighlight' = key
        /\ UNCHANGED <<notWorldVars, viewer, worldLeaflet, entities,
                       viewerEntities, restaurantEntities, cards>>

\* clearRestaurantMarkers removing nothing
Removed_None(list) == {}

\* the entities clearRestaurantMarkers removes from the globe and drops
\* from its list: every entity of restaurantEntities
Removed(list) == list

\* WorldMap.clearRestaurantMarkers()
ClearRestaurantMarkers ==
    IF viewer
    THEN /\ viewerEntities' = viewerEntities \ Removed(restaurantEntities)
         /\ restaurantEntities' =
                restaurantEntities \ Removed(restaurantEntities)
    ELSE UNCHANGED <<viewerEntities, restaurantEntities>>

\* the timer of highlightTrip fires: showNearbyRestaurants(trip)
NearbyTimerFires ==
    /\ nearbyTimers # <<>>
    /\ nearbyTimers' = Tail(nearbyTimers)
    /\ IF viewer
       THEN \* clearRestaurantMarkers(), then the hotel and the venues
            /\ restaurantEntities' =
                   (restaurantEntities \ Removed(restaurantEntities))
                       \cup NearbyEntities(Head(nearbyTimers))
            /\ viewerEntities' =
                   (viewerEntities \ Removed(restaurantEntities))
                       \cup NearbyEntities(Head(nearbyTimers))
       ELSE UNCHANGED <<viewerEntities, restaurantEntities>>
    /\ UNCHANGED <<notWorldVars, viewer, worldLeaflet, entities, cards,
                   activeCards, lastHighlight, camera>>

\* a direct call of WorldMap.clearRestaurantMarkers()
ClearRestaurantMarkersCall ==
    /\ pc = "ready"
    /\ ClearRestaurantMarkers
    /\ UNCHANGED <<notWorldVars, viewer, worldLeaflet, entities, cards,
                   activeCards, nearbyTimers, lastHighlight, camera>>

\* a direct call of WorldMap.zoomToLocation(coordinates)
ZoomToLocationCall(coord) ==
    /\ pc = "ready"
    /\ camera' = IF viewer THEN Camera(coord, 500000) ELSE camera
    /\ UNCHANGED <<notWorldVars, viewer, worldLeaflet, entities,
                   viewerEntities, restaurantEntities, cards, activeCards,
                   nearbyTimers, lastHighlight>>

(***************************************************************************)
(* API.fetchRestaurants and API.getMockRestaurants, await by await.  The   *)
(* points of this part lie on one meridian and are given by their latitude *)
(* in whole degrees.                                                       *)
(***************************************************************************)
\* calls of API.fetchRestaurants in one behaviour
MaxCalls == 2

\* R * PI / 180 for R = 6371e3: the metres of one degree of a great circle,
\* in units of 1/100 m
MetersPerDegree == 11119493

\* API.calculateDistance for two points of one meridian, in units of
\* 1/100 m: with equal longitudes the haversine a is sin^2(dphi/2), c is
\* |dphi| and R * c is R * |lat2 - lat1| * PI / 180
CalculateDistance(lat1, lat2) ==
    (IF lat2 >= lat1 THEN lat2 - lat1 ELSE lat1 - lat2) * MetersPerDegree

\* Math.round of a non-negative number given in units of 1/100
MathRound(x) == (x + 50) \div 100

\* a restaurant object: its id, its latitude and its distance field
Restaurant(id, lat, distance) == [id |-> id, lat |-> lat, distance |-> distance]

\* config.js: the first two mock restaurants, with their stored distances
MOCK_RESTAURANTS == << Restaurant(1, 38, 450), Restaurant(2, 37, 890) >>

\* getMockRestaurants returning the table as stored
GetMockRestaurants_Stored(latitude) == MOCK_RESTAURANTS

\* the value getMockRestaurants resolves with: every mock restaurant with
\* its distance replaced by Math.round(calculateDistance(...))
GetMockRestaurants(latitude) ==
    [i \in 1..Len(MOCK_RESTAURANTS) |->
        [MOCK_RESTAURANTS[i] EXCEPT
            !.distance = MathRound(CalculateDistance(latitude,
                                                     MOCK_RESTAURANTS[i].lat))]]

\* One call of fetchRestaurants(latitude, ...).  stage is the await the call
\* stands at: "fetch" (await fetch), "json" (await response.json()),
\* "mockDelay" (the timer of getMockRestaurants), or how its promise has
\* settled: "resolved" with result, or "rejected".  upstream records what
\* the request to CONFIG.YELP_API_URL came to.
ApiCall(latitude, stage, upstream, result) ==
    [latitude |-> latitude, stage |-> stage, upstream |-> upstream,
     result |-> result]

\* fetchRestaurants without its try / catch
OnThrow_NoCatch(stage) == "rejected"

\* where an exception raised at a stage takes the call: inside the try
\* block the catch clause returns getMockRestaurants(...); an exception of
\* getMockRestaurants itself rejects the promise
OnThrow(stage) ==
    IF stage \in {"fetch", "json"} THEN "mockDelay" ELSE "rejected"

\* the ways the proxy request can fail
UpstreamFailures == {"networkError", "notOk", "badJson", "nullBody"}

\* the bodies response.json() can yield: a rejection (invalid JSON), null,
\* an object without businesses, an object with a list of businesses
YelpBodies ==
    { [kind |-> "badJson", businesses |-> <<>>],
      [kind |-> "nullBody", businesses |-> <<>>],
      [kind |-> "noBusinesses", businesses |-> <<>>],
      [kind |-> "businesses", businesses |-> <<>>],
      [kind |-> "businesses", businesses |-> << Restaurant(7, 40, 120) >>] }

\* API.fetchRestaurants(latitude, longitude) is called
FetchRestaurants(latitude) ==
    /\ Len(apiCalls) < MaxCalls
    /\ apiCalls' = Append(apiCalls,
          IF ~YELP_API_URL
          THEN ApiCall(latitude, "mockDelay", "unconfigured", <<>>)
          ELSE ApiCall(latitude, "fetch", "none", <<>>))
    /\ UNCHANGED YELP_API_URL

\* the promise of fetch() settles: it rejects, or it yields a response whose
\* ok flag is false (throw new Error) or true
FetchSettles(k, outcome) ==
    /\ k \in 1..Len(apiCalls)
    /\ apiCalls[k].stage = "fetch"
    /\ apiCalls' = [apiCalls EXCEPT ![k] =
          IF outcome = "ok"
          THEN [@ EXCEPT !.stage = "json"]
          ELSE [@ EXCEPT !.stage = OnThrow("fetch"), !.upstream = outcome]]
    /\ UNCHANGED YELP_API_URL

\* the promise of response.json() settles; data.businesses || []
JsonSettles(k, body) ==
    /\ k \in 1..Len(apiCalls)
    /\ apiCalls[k].stage = "json"
    /\ apiCalls' = [apiCalls EXCEPT ![k] =
          IF body.kind \in {"badJson", "nullBody"}
          THEN [@ EXCEPT !.stage = OnThrow("json"), !.upstream = body.kind]
          ELSE [@ EXCEPT !.stage = "resolved", !.upstream = "ok",
                         !.result = body.businesses]]
    /\ UNCHANGED YELP_API_URL

\* the timer of getMockRestaurants fires and the mapped table is returned
MockDelayElapsed(k) ==
    /\ k \in 1..Len(apiCalls)
    /\ apiCalls[k].stage = "mockDelay"
    /\ apiCalls' = [apiCalls EXCEPT ![k] =
          [@ EXCEPT !.stage = "resolved",
                    !.result = GetMockRestaurants(apiCalls[k].latitude)]]
    /\ UNCHANGED YELP_API_URL

(***************************************************************************)
(* server.js: POST /api/yelp-search, the Yelp proxy with its cache.  The   *)
(* handler of part_007 validates with the same statements.                 *)
(***************************************************************************)
\* requests handled in one behaviour, and the last tick of the server clock
MaxRequests == 2
MaxClock == 2

DEFAULT_SEARCH_RADIUS == 8047
DEFAULT_SEARCH_LIMIT == 20
MAX_SEARCH_RADIUS_METERS == 40000
\* CACHE_TTL_MS: one tick of the server clock is the cache TTL
CACHE_TTL_MS == 1

\* req.body: the four fields the validation reads
Body(latitude, longitude, radius, limit) ==
    [latitude |-> latitude, longitude |-> longitude, radius |-> radius,
     limit |-> limit]

\* the search parameters sent upstream, which are also the cache key
Params(latitude, longitude, radius, limit) ==
    [latitude |-> latitude, longitude |-> longitude, radius |-> radius,
     limit |-> limit]
NoParams == Params(0, 0, 0, 0)

\* the validation with the upper bound of the radius exclusive
Validate_RadiusBelowMax(body) ==
    LET radiusValue == ToNumber(body.radius)
        limitValue  == ToNumber(body.limit)
    IN  IF ~Truthy(body.latitude) \/ ~Truthy(body.longitude)
        THEN "required"
        ELSE IF ~ToNumber(body.latitude).finite \/ ~ToNumber(body.longitude).finite
        THEN "invalidNumbers"
        ELSE IF body.radius # JsUndefined
                /\ (~radiusValue.finite \/ radiusValue.n <= 0
                      \/ radiusValue.n >= MAX_SEARCH_RADIUS_METERS)
        THEN "radius"
        ELSE IF body.limit # JsUndefined
                /\ (~limitValue.finite \/ limitValue.n <= 0)
        THEN "limit"
        ELSE "ok"

\* the four validation statements of the handler, in order: the check that
\* fails, or "ok"
Validate(body) ==
    LET hasRadius   == body.radius # JsUndefined
        hasLimit    == body.limit # JsUndefined
        radiusValue == ToNumber(body.radius)
        limitValue  == ToNumber(body.limit)
    IN  IF ~Truthy(body.latitude) \/ ~Truthy(body.longitude)
        THEN "required"
        ELSE IF ~ToNumber(body.latitude).finite \/ ~ToNumber(body.longitude).finite
        THEN "invalidNumbers"
        ELSE IF hasRadius
                /\ (~radiusValue.finite \/ radiusValue.n <= 0
                      \/ radiusValue.n > MAX_SEARCH_RADIUS_METERS)
        THEN "radius"
        ELSE IF hasLimit /\ (~limitValue.finite \/ limitValue.n <= 0)
        THEN "limit"
        ELSE "ok"

\* the URLSearchParams built from a body that passed validation
NormalizedParams(body) ==
    Params(ToNumber(body.latitude).n, ToNumber(body.longitude).n,
           IF body.radius # JsUndefined THEN ToNumber(body.radius).n
           ELSE DEFAULT_SEARCH_RADIUS,
           IF body.limit # JsUndefined THEN ToNumber(body.limit).n
           ELSE DEFAULT_SEARCH_LIMIT)

\* One request and its response.  stage "upstream": the handler awaits the
\* fetch to Yelp; "answered": the response is sent, with its status, whether
\* its body is an {error} object, the data it carries (0: none) and whether
\* a fetch to Yelp was made for it.
Exchange(body, stage, status, error, data, params, upstream) ==
    [body |-> body, stage |-> stage, status |-> status, error |-> error,
     data |-> data, params |-> params, upstream |-> upstream]

\* res.status(code).json({ error: ... })
ErrorResponse(body, status, params, upstream) ==
    Exchange(body, "answered", status, TRUE, 0, params, upstream)

\* a cache entry { expiresAt, data } under its key
CacheEntry(key, expiresAt, data) ==
    [key |-> key, expiresAt |-> expiresAt, data |-> data]

\* a store that returns nothing
Fresh_None(key) == {}

\* getCachedResponse(cacheKey): the entries that are returned as fresh
Fresh(key) == {c \in cache : c.key = key /\ ~(c.expiresAt < serverNow)}

\* the handler of POST /api/yelp-search up to its response or its await
PostYelpSearch(body) ==
    /\ Len(exchanges) < MaxRequests
    /\ IF ~YELP_API_KEY
       THEN /\ exchanges' = Append(exchanges,
                                   ErrorResponse(body, 500, NoParams, FALSE))
            /\ UNCHANGED cache
       ELSE IF Validate(body) # "ok"
       THEN /\ exchanges' = Append(exchanges,
                                   ErrorResponse(body, 400, NoParams, FALSE))
            /\ UNCHANGED cache
       ELSE LET key == NormalizedParams(body)
            IN  IF Fresh(key) # {}
                THEN /\ exchanges' = Append(exchanges,
                          Exchange(body, "answered", 200, FALSE,
                                   (CHOOSE c \in Fresh(key) : TRUE).data,
                                   key, FALSE))
                     /\ UNCHANGED cache
                ELSE \* an expired entry is deleted; the fetch is awaited
                     /\ cache' = {c \in cache : c.key # key}
                     /\ exchanges' = Append(exchanges,
                          Exchange(body, "upstream", 0, FALSE, 0, key, TRUE))
    /\ UNCHANGED <<YELP_API_KEY, serverNow>>

\* the fetch to Yelp settles: "ok" with a JSON body data, "notOk" with a
\* status, or "throws" (fetch or response.json() rejects)
YelpResponds(k, outcome, data, status) ==
    /\ k \in 1..Len(exchanges)
    /\ exchanges[k].stage = "upstream"
    /\ LET x == exchanges[k]
       IN  CASE outcome = "ok" ->
                  /\ cache' = {c \in cache : c.key # x.params}
                       \cup {CacheEntry(x.params, serverNow + CACHE_TTL_MS, data)}
                  /\ exchanges' = [exchanges EXCEPT ![k] =
                        Exchange(x.body, "answered", 200, FALSE, data,
                                 x.params, TRUE)]
             [] outcome = "notOk" ->
                  /\ exchanges' = [exchanges EXCEPT ![k] =
                        ErrorResponse(x.body, status, x.params, TRUE)]
                  /\ UNCHANGED cache
             [] OTHER ->
                  /\ exchanges' = [exchanges EXCEPT ![k] =
                        ErrorResponse(x.body, 500, x.params, TRUE)]
                  /\ UNCHANGED cache
    /\ UNCHANGED <<YELP_API_KEY, serverNow>>

(***************************************************************************)
(* server.js: the TripIt OAuth endpoints /api/tripit/connect and           *)
(* /api/tripit/callback with their two token stores, and the interval that *)
(* cleans the request tokens up                                            *)
(***************************************************************************)
\* requests to each endpoint in one behaviour, and the last tick of the
\* server clock while the TripIt endpoints are used
MaxConnects == 2
MaxCallbacks == 2
MaxTokenClock == 4

\* ten minutes, in ticks of five minutes
TRIPIT_REQUEST_TOKEN_TTL_MS == 2

\* the oauth_token of a callback without the query parameter
NoToken == 0

\* tripitRequestTokens.set(oauthToken, { secret, createdAt })
RequestToken(token, createdAt) == [token |-> token, createdAt |-> createdAt]

\* tripitAccessTokens.set(sessionId, { key, secret, createdAt }), with the
\* request token it was exchanged for
Session(sessionId, token, createdAt) ==
    [sessionId |-> sessionId, token |-> token, createdAt |-> createdAt]
NoSession == 0

\* a request to /api/tripit/connect: awaiting TripIt ("tripit") or answered
\* with a status and, on 200, the token of its authorizeUrl
Connect(stage, status, token) ==
    [stage |-> stage, status |-> status, token |-> token]

\* a request to /api/tripit/callback: the oauth_token of its query, whether
\* the token was found in the store, its age then, and the page it is
\* answered with (its message and the session id it carries)
Callback(token, found, age, stage, message, sessionId) ==
    [token |-> token, found |-> found, age |-> age, stage |-> stage,
     message |-> message, sessionId |-> sessionId]

\* sendCallbackPage(false, message, null)
FailurePage(token, found, age, message) ==
    Callback(token, found, age, "answered", message, NoSession)

\* the request tokens TripIt has issued so far; it never issues one twice
IssuedTokens == {connects[k].token : k \in 1..Len(connects)} \ {NoToken}

\* the entries of the store under a token
Stored(token) == {t \in tripitRequestTokens : t.token = token}

\* a callback that leaves the token it used in the store
Delete_Kept(tokens, token) == tokens

\* tripitRequestTokens.delete(oauthToken)
Delete(tokens, token) == {t \in tokens : t.token # token}

\* GET /api/tripit/connect up to its response or its await; callback is
\* the query parameter: "missing", "foreign" (another origin or no URL) or
\* "own"
GetTripitConnect(callback) ==
    /\ Len(connects) < MaxConnects
    /\ connects' = Append(connects,
          IF ~tripitOAuth THEN Connect("answered", 500, NoToken)
          ELSE IF callback # "own" THEN Connect("answered", 400, NoToken)
          ELSE Connect("tripit", 0, NoToken))
    /\ UNCHANGED <<tripitOAuth, tripitRequestTokens, tripitAccessTokens,
                   callbacks, serverNow>>

\* the fetch of the request token settles: "ok" with a new token and its
\* secret, "notOk", "invalid" (a body without them) or "throws"
RequestTokenResponds(k, outcome) ==
    /\ k \in 1..Len(connects)
    /\ connects[k].stage = "tripit"
    /\ IF outcome = "ok"
       THEN LET oauthToken == Cardinality(IssuedTokens) + 1
            IN  /\ tripitRequestTokens' =
                      Delete(tripitRequestTokens, oauthToken)
                         \cup {RequestToken(oauthToken, serverNow)}
                /\ connects' = [connects EXCEPT ![k] =
                                   Connect("answered", 200, oauthToken)]
       ELSE /\ connects' = [connects EXCEPT ![k] =
                  Connect("answered", IF outcome = "notOk" THEN 401 ELSE 500,
                          NoToken)]
            /\ UNCHANGED tripitRequestTokens
    /\ UNCHANGED <<tripitOAuth, tripitAccessTokens, callbacks, serverNow>>

\* GET /api/tripit/callback?oauth_token=... up to its page or its await
GetTripitCallback(oauthToken) ==
    /\ Len(callbacks) < MaxCallbacks
    /\ IF ~tripitOAuth
       THEN /\ callbacks' = Append(callbacks,
                  FailurePage(oauthToken, FALSE, 0, "notConfigured"))
            /\ UNCHANGED tripitRequestTokens
       ELSE IF oauthToken = NoToken
       THEN /\ callbacks' = Append(callbacks,
                  FailurePage(oauthToken, FALSE, 0, "missing"))
            /\ UNCHANGED tripitRequestTokens
       ELSE IF Stored(oauthToken) = {}
       THEN /\ callbacks' = Append(callbacks,
                  FailurePage(oauthToken, FALSE, 0, "unknownOrExpired"))
            /\ UNCHANGED tripitRequestTokens
       ELSE LET stored == CHOOSE t \in Stored(oauthToken) : TRUE
            IN  /\ tripitRequestTokens' =
                      Delete(tripitRequestTokens, oauthToken)
                /\ callbacks' = Append(callbacks,
                      Callback(oauthToken, TRUE, serverNow - stored.createdAt,
                               "tripit", "", NoSession))
    /\ UNCHANGED <<tripitOAuth, tripitAccessTokens, connects, serverNow>>

\* the fetch of the access token settles: "ok" with an access token and its
\* secret, "notOk", "invalid" (a body without them) or "throws"
AccessTokenResponds(k, outcome) ==
    /\ k \in 1..Len(callbacks)
    /\ callbacks[k].stage = "tripit"
    /\ LET c == callbacks[k]
       IN  IF outcome = "ok"
           THEN \* crypto.randomBytes(32): an id no session has
                LET sessionId == Cardinality(tripitAccessTokens) + 1
                IN  /\ tripitAccessTokens' = tripitAccessTokens
                          \cup {Session(sessionId, c.token, serverNow)}
                    /\ callbacks' = [callbacks EXCEPT ![k] =
                          Callback(c.token, TRUE, c.age, "answered",
                                   "connected", sessionId)]
           ELSE /\ callbacks' = [callbacks EXCEPT ![k] =
                      FailurePage(c.token, TRUE, c.age,
                         CASE outcome = "notOk" -> "exchangeFailed"
                           [] outcome = "invalid" -> "invalidResponse"
                           [] OTHER -> "contactFailed")]
                /\ UNCHANGED tripitAccessTokens
    /\ UNCHANGED <<tripitOAuth, tripitRequestTokens, connects, serverNow>>

\* the setInterval callback: the request tokens that stay at time at
CleanUp(tokens, at) ==
    {t \in tokens : ~(at - t.createdAt > TRIPIT_REQUEST_TOKEN_TTL_MS)}

\* time passes on the server up to a limit; the cleanup interval fires
\* every TRIPIT_REQUEST_TOKEN_TTL_MS after the start of the process
Tick(limit) ==
    /\ serverNow < limit
    /\ serverNow' = serverNow + 1
    /\ tripitRequestTokens' =
          IF (serverNow + 1) % TRIPIT_REQUEST_TOKEN_TTL_MS = 0
          THEN CleanUp(tripitRequestTokens, serverNow + 1)
          ELSE tripitRequestTokens
    /\ UNCHANGED <<YELP_API_KEY, cache, exchanges, tripitOAuth,
                   tripitAccessTokens, connects, callbacks>>

\* time passes on the server
ServerTick == Tick(MaxClock)

(***************************************************************************)
(* Initial states                                                          *)
(***************************************************************************)
\* the instant at which a clock in zone shows hour h of the day y-m-d
LocalInstant(y, m, d, h, zone) == DaysFromCivil(y, m, d) * 24 + h - zone

\* the browser time zones the model runs in (hours east of UTC)
TimeZones == {-8, 0, 9}

\* the App, MapModule and UI objects as their literals construct them, and
\* the page as loaded: the world view shown, the other two hidden
ProgramInit ==
    /\ pc = "boot"
    /\ currentView = VIEW_MODE_WORLD
    /\ locationControlsInitialized = FALSE
    /\ activeSearchContext = NoContext
    /\ display = [worldView |-> "flex", localView |-> "none",
                  travelLogView |-> "none"]
    /\ selectValue = NoContext
    /\ activeLabel = NoText
    /\ map = FALSE
    /\ mapCenter = DEFAULT_COORD
    /\ mapLayers = {}
    /\ markers = <<>>
    /\ userMarker = NoMarker
    /\ userLocation = NonFinite
    /\ searchAreaBtn = FALSE
    /\ popup = NoMarker
    /\ restaurants = [from |-> 0, ids |-> <<>>]
    /\ fetches = <<>>
    /\ lastViewOp = Op("none", VIEW_MODE_WORLD, "")
    /\ geoPending = 0
    /\ geoLog = 0
    /\ lastCenterCall = NoCall
    /\ apiCalls = <<>>
    /\ serverNow = 0
    /\ cache = {}
    /\ exchanges = <<>>
    /\ tripitRequestTokens = {}
    /\ tripitAccessTokens = {}
    /\ connects = <<>>
    /\ callbacks = <<>>
    /\ viewer = FALSE
    /\ worldLeaflet = FALSE
    /\ entities = <<>>
    /\ viewerEntities = {}
    /\ restaurantEntities = {}
    /\ cards = {}
    /\ activeCards = {}
    /\ nearbyTimers = <<>>
    /\ lastHighlight = NoKey
    /\ camera = NoCamera
    /\ lastError = "none"
    /\ resizeTimers = <<>>

\* config.js: the first two upcoming trips and the latest past trip
ConfigUpcoming ==
    << Trip(1, IsoDate(2026, 3, 15), IsoDate(2026, 3, 19), 1),
       Trip(2, IsoDate(2026, 4, 10), IsoDate(2026, 4, 14), 2) >>

ConfigHistory ==
    << Trip(5, IsoDate(2025, 1, 8), IsoDate(2025, 1, 12), 3) >>

\* config.js as shipped: CONFIG.YELP_API_URL is set
ConfigInit ==
    /\ tripitOAuth = TRUE
    /\ YELP_API_URL = TRUE
    /\ YELP_API_KEY = TRUE
    /\ geolocation = TRUE
    /\ cesium = "ok"
    /\ present = Elements

\* the coordinates the user can move the local map to
PanTargets ==
    {ConfigUpcoming[i].coord : i \in 1..Len(ConfigUpcoming)}
        \cup {DEFAULT_COORD}

Init ==
    /\ ProgramInit
    /\ ConfigInit
    /\ MOCK_UPCOMING_TRIPS = ConfigUpcoming
    /\ MOCK_TRAVEL_HISTORY = ConfigHistory
    /\ tz = 0
    /\ now = LocalInstant(2026, 3, 1, 12, tz)
    /\ leaflet \in BOOLEAN

Next ==
    \/ AppInit
    \/ ToggleView
    \/ ShowTravelLog
    \/ \E type \in {"upcoming", "past"} : \E id \in 1..5 : SelectChange(type, id)
    \/ \E coord \in PanTargets : MapMoveEnd(coord)
    \/ SearchCurrentArea
    \/ \E k \in 1..MaxFetches : \E list \in ResultLists : FetchResolve(k, list)
    \/ ResizeTimerFires

Spec == Init /\ [][Next]_vars


(***************************************************************************)
(* The trip selector over drawn trip tables: App.init() runs               *)
(* setupLocationControls() for every pair of trip lists, clock and zone.   *)
(***************************************************************************)
\* start dates of the drawn upcoming trips (NoDate: a trip without one)
UpcomingDates ==
    {IsoDate(2026, 3, 10), IsoDate(2026, 3, 15), IsoDate(2026, 4, 10), NoDate}

\* start dates of the drawn past trips
PastDates == {IsoDate(2024, 11, 12), IsoDate(2025, 1, 8)}

\* the local calendar days and hours at which the application starts
TodayDates == {IsoDate(2026, 2, 1), IsoDate(2026, 3, 15), IsoDate(2026, 5, 1)}
TodayHours == {0, 23}

\* the trip lists of length n whose i-th trip has id i, a start date from
\* dates and the coordinate base + i
TripListsOfLen(n, dates, base) ==
    {[i \in 1..n |-> Trip(i, f[i], f[i], base + i)] : f \in [1..n -> dates]}

TripLists(dates, base) ==
    UNION {TripListsOfLen(n, dates, base) : n \in 0..MaxTrips}

InitSelect ==
    /\ ProgramInit
    /\ ConfigInit
    /\ MOCK_UPCOMING_TRIPS \in TripLists(UpcomingDates, 0)
    /\ MOCK_TRAVEL_HISTORY \in TripLists(PastDates, MaxTrips)
    /\ tz \in TimeZones
    /\ \E day \in TodayDates : \E h \in TodayHours :
          now = LocalInstant(day.y, day.m, day.d, h, tz)
    /\ leaflet = TRUE

NextSelect ==
    \/ AppInit
    \/ \E k \in 1..MaxFetches : \E list \in ResultLists : FetchResolve(k, list)

SpecSelect == InitSelect /\ [][NextSelect]_vars

(***************************************************************************)
(* formatDateRange over drawn date strings: App.init() labels the one      *)
(* upcoming trip, whose start and end dates are drawn.                     *)
(***************************************************************************)
FormatInputs ==
    {IsoDate(2026, 3, 1), IsoDate(2026, 3, 15), IsoDate(2026, 3, 19),
     IsoDate(2026, 3, 30), IsoDate(2026, 4, 2), IsoDate(2026, 12, 30),
     IsoDate(2027, 1, 1), IsoDate(2027, 1, 2), TextDate}

InitFormat ==
    /\ ProgramInit
    /\ ConfigInit
    /\ \E s \in FormatInputs : \E e \in FormatInputs :
          MOCK_UPCOMING_TRIPS = << Trip(1, s, e, 1) >>
    /\ MOCK_TRAVEL_HISTORY = <<>>
    /\ tz \in TimeZones
    /\ now = LocalInstant(2026, 2, 1, 12, tz)
    /\ leaflet = TRUE

SpecFormat == InitFormat /\ [][NextSelect]_vars


(***************************************************************************)
(* API.fetchRestaurants over every outcome of the proxy request            *)
(***************************************************************************)
\* the latitudes searched
ApiLatitudes == {37, 38, 40}

InitApi ==
    /\ ProgramInit
    /\ tripitOAuth = TRUE
    /\ MOCK_UPCOMING_TRIPS = ConfigUpcoming
    /\ MOCK_TRAVEL_HISTORY = ConfigHistory
    /\ tz = 0
    /\ now = LocalInstant(2026, 3, 1, 12, tz)
    /\ leaflet = TRUE
    /\ YELP_API_URL \in BOOLEAN
    /\ YELP_API_KEY = TRUE
    /\ geolocation = TRUE
    /\ cesium = "ok"
    /\ present = Elements

\* the variables of the browser application, which this part leaves alone
appVars == <<envVars, geoVars, worldVars, lastError, resizeTimers, pc, currentView, locationControlsInitialized,
             activeSearchContext, display, selectValue, activeLabel, map,
             mapCenter, mapLayers, markers, userMarker, userLocation,
             searchAreaBtn, restaurants, fetches, lastViewOp, popup>>

NextApi ==
    \/ \E latitude \in ApiLatitudes :
          FetchRestaurants(latitude) /\ UNCHANGED <<appVars, proxyVars, tripitVars>>
    \/ \E k \in 1..MaxCalls : \E outcome \in {"networkError", "notOk", "ok"} :
          FetchSettles(k, outcome) /\ UNCHANGED <<appVars, proxyVars, tripitVars>>
    \/ \E k \in 1..MaxCalls : \E body \in YelpBodies :
          JsonSettles(k, body) /\ UNCHANGED <<appVars, proxyVars, tripitVars>>
    \/ \E k \in 1..MaxCalls : MockDelayElapsed(k) /\ UNCHANGED <<appVars, proxyVars, tripitVars>>

SpecApi == InitApi /\ [][NextApi]_vars

(***************************************************************************)
(* The Yelp proxy over drawn request bodies                                *)
(***************************************************************************)
\* the values a client sends as latitude, as longitude, as radius, as limit
LatitudeValues ==
    {JsUndefined, JsNull, JsNumber(0), JsNumber(47), JsNumeral(47), JsText,
     JsEmptyString}
LongitudeValues == {JsUndefined, JsNumber(0), JsNumber(-122)}
RadiusValues ==
    {JsUndefined, JsNull, JsNumber(0), JsNumber(-5), JsNumber(1),
     JsNumber(40000), JsNumber(40001), JsNumeral(100), JsText, JsTrue}
LimitValues ==
    {JsUndefined, JsNumber(0), JsNumber(-1), JsNumber(1), JsNumber(20), JsText}

\* the request bodies: every pair of coordinates without optional fields,
\* and the coordinates of Seattle with one optional field or with both
RequestBodies ==
    {Body(la, lo, JsUndefined, JsUndefined) :
        la \in LatitudeValues, lo \in LongitudeValues}
    \cup {Body(JsNumber(47), JsNumber(-122), r, JsUndefined) : r \in RadiusValues}
    \cup {Body(JsNumber(47), JsNumber(-122), JsUndefined, l) : l \in LimitValues}
    \cup {Body(JsNumber(47), JsNumber(-122), JsNumber(40000), JsNumber(20)),
          Body(JsNumber(47), JsNumber(-122), JsNumber(40001), JsNumber(0))}

\* the JSON bodies Yelp answers with (by number) and its error statuses
YelpData == {1, 2}
YelpErrorStatuses == {429}

InitProxy ==
    /\ ProgramInit
    /\ tripitOAuth = TRUE
    /\ MOCK_UPCOMING_TRIPS = ConfigUpcoming
    /\ MOCK_TRAVEL_HISTORY = ConfigHistory
    /\ tz = 0
    /\ now = LocalInstant(2026, 3, 1, 12, tz)
    /\ leaflet = TRUE
    /\ YELP_API_URL = TRUE
    /\ YELP_API_KEY \in BOOLEAN
    /\ geolocation = TRUE
    /\ cesium = "ok"
    /\ present = Elements

NextProxy ==
    \/ \E body \in RequestBodies :
          PostYelpSearch(body) /\ UNCHANGED <<appVars, apiVars, tripitVars>>
    \/ \E k \in 1..MaxRequests : \E outcome \in {"ok", "notOk", "throws"} :
       \E data \in YelpData : \E status \in YelpErrorStatuses :
          YelpResponds(k, outcome, data, status)
             /\ UNCHANGED <<appVars, apiVars, tripitVars>>
    \/ ServerTick /\ UNCHANGED <<appVars, apiVars>>

SpecProxy == InitProxy /\ [][NextProxy]_vars

(***************************************************************************)
(* The TripIt OAuth endpoints under every interleaving of connects,        *)
(* callbacks, TripIt's answers and the clock with its cleanup interval     *)
(***************************************************************************)
\* the oauth_token values a callback arrives with
CallbackTokens == 0..MaxConnects

TripitOutcomes == {"ok", "notOk", "invalid", "throws"}

InitTripit ==
    /\ ProgramInit
    /\ MOCK_UPCOMING_TRIPS = ConfigUpcoming
    /\ MOCK_TRAVEL_HISTORY = ConfigHistory
    /\ tz = 0
    /\ now = LocalInstant(2026, 3, 1, 12, tz)
    /\ leaflet = TRUE
    /\ YELP_API_URL = TRUE
    /\ YELP_API_KEY = TRUE
    /\ geolocation = TRUE
    /\ cesium = "ok"
    /\ present = Elements
    /\ tripitOAuth \in BOOLEAN

\* what the TripIt endpoints leave alone
notTripitVars == <<appVars, apiVars, YELP_API_KEY, cache, exchanges>>

NextTripit ==
    \/ \E callback \in {"missing", "foreign", "own"} :
          GetTripitConnect(callback) /\ UNCHANGED notTripitVars
    \/ \E k \in 1..MaxConnects : \E outcome \in TripitOutcomes :
          RequestTokenResponds(k, outcome) /\ UNCHANGED notTripitVars
    \/ \E oauthToken \in CallbackTokens :
          GetTripitCallback(oauthToken) /\ UNCHANGED notTripitVars
    \/ \E k \in 1..MaxCallbacks : \E outcome \in TripitOutcomes :
          AccessTokenResponds(k, outcome) /\ UNCHANGED notTripitVars
    \/ Tick(MaxTokenClock) /\ UNCHANGED <<appVars, apiVars>>

SpecTripit == InitTripit /\ [][NextTripit]_vars

(***************************************************************************)
(* The search center: trip selection, GPS and direct setSearchCenter calls *)
(* over trip tables with and without usable coordinates                    *)
(***************************************************************************)
\* an upcoming trip whose coordinates are missing, before a usable one
UpcomingNoCoordinates ==
    << Trip(1, IsoDate(2026, 3, 15), IsoDate(2026, 3, 19), NonFinite),
       Trip(2, IsoDate(2026, 4, 10), IsoDate(2026, 4, 14), 2) >>

\* the positions the device reports
GpsPositions == {4}

\* the values setSearchCenter is called with
CenterValues == {JsNumber(5), JsUndefined, JsNull, JsText}

\* geolocation error codes: PERMISSION_DENIED and TIMEOUT
GeolocationErrorCodes == {1, 3}

\* the list a fetch resolves with in this part: restaurants 1..MaxResults
FullResult == [i \in 1..MaxResults |-> i]

InitLocate ==
    /\ ProgramInit
    /\ tripitOAuth = TRUE
    /\ MOCK_UPCOMING_TRIPS \in {ConfigUpcoming, UpcomingNoCoordinates, <<>>}
    /\ MOCK_TRAVEL_HISTORY = <<>>
    /\ tz = 0
    /\ now = LocalInstant(2026, 3, 1, 12, tz)
    /\ leaflet = TRUE
    /\ YELP_API_URL = TRUE
    /\ YELP_API_KEY = TRUE
    /\ geolocation \in BOOLEAN
    \* the page without the 3D library: no trip entity is created
    /\ cesium = "missing"
    /\ present = Elements

NextLocate ==
    \/ AppInit
    \/ \E id \in 1..2 : SelectChange("upcoming", id)
    \/ RequestUserLocation
    \/ \E coord \in GpsPositions : GeolocationSuccess(coord)
    \/ \E code \in GeolocationErrorCodes : GeolocationError(code)
    \/ \E lat \in CenterValues : \E lng \in {JsNumber(5), JsInfinity} :
          SetSearchCenterCall(lat, lng)
    \/ \E k \in 1..MaxFetches : FetchResolve(k, FullResult)

SpecLocate == InitLocate /\ [][NextLocate]_vars

(***************************************************************************)
(* The world surface: WorldMap.init() with and without its libraries, then *)
(* clicks on trip cards and trip markers                                   *)
(***************************************************************************)
CesiumStates == {"ok", "throws", "missing"}

\* the coordinates zoomToLocation is called with
ZoomTargets == {ConfigHistory[1].coord}

InitWorld ==
    /\ ProgramInit
    /\ tripitOAuth = TRUE
    /\ MOCK_UPCOMING_TRIPS = ConfigUpcoming
    /\ MOCK_TRAVEL_HISTORY = ConfigHistory
    /\ tz = 0
    /\ now = LocalInstant(2026, 3, 1, 12, tz)
    /\ leaflet \in BOOLEAN
    /\ YELP_API_URL = TRUE
    /\ YELP_API_KEY = TRUE
    /\ geolocation = TRUE
    /\ cesium \in CesiumStates
    /\ present = Elements

NextWorld ==
    \/ AppInit
    \/ \E id \in 1..5 : \E isPast \in BOOLEAN : HighlightTrip(id, isPast)
    \/ NearbyTimerFires
    \/ ClearRestaurantMarkersCall
    \/ \E coord \in ZoomTargets : ZoomToLocationCall(coord)

SpecWorld == InitWorld /\ [][NextWorld]_vars

(***************************************************************************)
(* Clicks on trip cards and trip markers, and the timers they start        *)
(***************************************************************************)
NextClicks ==
    \/ AppInit
    \/ \E id \in 1..5 : \E isPast \in BOOLEAN : HighlightTrip(id, isPast)
    \/ NearbyTimerFires

SpecClicks == InitWorld /\ [][NextClicks]_vars

(***************************************************************************)
(* The view handlers in documents that lack one of the elements they look  *)
(* up                                                                      *)
(***************************************************************************)
\* the elements a document may lack
Removable == {"worldView", "localView", "travelLogView", "viewToggle"}

InitDom ==
    /\ ProgramInit
    /\ tripitOAuth = TRUE
    /\ MOCK_UPCOMING_TRIPS = ConfigUpcoming
    /\ MOCK_TRAVEL_HISTORY = ConfigHistory
    /\ tz = 0
    /\ now = LocalInstant(2026, 3, 1, 12, tz)
    /\ leaflet = TRUE
    /\ YELP_API_URL = TRUE
    /\ YELP_API_KEY = TRUE
    /\ geolocation = TRUE
    /\ cesium = "ok"
    /\ present \in {Elements} \cup {Elements \ {el} : el \in Removable}

NextDom ==
    \/ AppInit
    \/ ToggleView
    \/ ShowTravelLog
    \/ \E id \in 1..2 : SelectChange("upcoming", id)
    \/ \E k \in 1..MaxFetches : FetchResolve(k, FullResult)
    \/ ResizeTimerFires

SpecDom == InitDom /\ [][NextDom]_vars

(***************************************************************************)
(* The view handlers and the resize timers they leave behind, with the     *)
(* globe and with the 2D fallback as the world surface                     *)
(***************************************************************************)
InitResize ==
    /\ ProgramInit
    /\ tripitOAuth = TRUE
    /\ MOCK_UPCOMING_TRIPS = ConfigUpcoming
    /\ MOCK_TRAVEL_HISTORY = ConfigHistory
    /\ tz = 0
    /\ now = LocalInstant(2026, 3, 1, 12, tz)
    /\ leaflet = TRUE
    /\ YELP_API_URL = TRUE
    /\ YELP_API_KEY = TRUE
    /\ geolocation = TRUE
    /\ cesium \in {"ok", "missing"}
    /\ present = Elements

NextResize ==
    \/ AppInit
    \/ ToggleView
    \/ ShowTravelLog
    \/ ResizeTimerFires
    \/ \E k \in 1..MaxFetches : FetchResolve(k, FullResult)

SpecResize == InitResize /\ [][NextResize]_vars

(***************************************************************************)
(* Popups of the restaurant markers: openMarkerPopup over the lists the    *)
(* restaurant cards may pass                                               *)
(***************************************************************************)
\* the lists passed as restaurants: every list of distinct restaurants
PassedLists ==
    {l \in UNION {[1..n -> 1..MaxResults] : n \in 0..MaxResults} :
        \A i, j \in 1..Len(l) : i # j => l[i] # l[j]}

NextPopup ==
    \/ AppInit
    \/ \E id \in 1..2 : SelectChange("upcoming", id)
    \/ \E k \in 1..MaxFetches : \E list \in ResultLists : FetchResolve(k, list)
    \/ \E id \in 1..MaxResults : \E list \in PassedLists :
          OpenMarkerPopup(id, list)

SpecPopup == InitResize /\ [][NextPopup]_vars

(***************************************************************************)
(* Properties                                                              *)
(***************************************************************************)
Containers == {"worldView", "localView", "travelLogView"}

\* the container that shows a view
ContainerOf(view) ==
    CASE view = VIEW_MODE_WORLD -> "worldView"
      [] view = VIEW_MODE_LOCAL -> "localView"
      [] OTHER                  -> "travelLogView"

Visible == {c \in Containers : display[c] = "flex"}

\* C1: after App.init and after any sequence of toggleView() and
\* showTravelLog() calls exactly one of the three view containers is
\* visible, and it is the container of App.currentView.
C1_ExactlyOneViewVisible ==
    pc = "ready" => Visible = {ContainerOf(currentView)}

\* the travel log has been opened from the local view
C1_Witness ==
    /\ pc = "ready"
    /\ lastViewOp = Op("showTravelLog", VIEW_MODE_LOCAL, VIEW_MODE_LOCAL)
    /\ Visible = {"travelLogView"}

\* C3: toggleView() called while the current view is TRAVEL_LOG sets the
\* current view to WORLD, from whichever view the travel log was opened.
C3_ToggleFromTravelLogYieldsWorld ==
    (lastViewOp.op = "toggleView" /\ lastViewOp.from = VIEW_MODE_TRAVEL_LOG)
        => currentView = VIEW_MODE_WORLD

\* toggleView() has run in the travel log, which was opened from LOCAL
C3_Witness ==
    /\ lastViewOp = Op("toggleView", VIEW_MODE_TRAVEL_LOG, VIEW_MODE_LOCAL)
    /\ currentView = VIEW_MODE_WORLD

\* C4: toggleView() never leaves the current view equal to TRAVEL_LOG, and
\* the current view is TRAVEL_LOG only as the result of showTravelLog().
C4_TravelLogOnlyByShowTravelLog ==
    /\ lastViewOp.op = "toggleView" => currentView # VIEW_MODE_TRAVEL_LOG
    /\ currentView = VIEW_MODE_TRAVEL_LOG => lastViewOp.op = "showTravelLog"

\* toggleView() has run in the local view after the travel log had been
\* opened once
C4_Witness ==
    /\ lastViewOp = Op("toggleView", VIEW_MODE_LOCAL, VIEW_MODE_WORLD)
    /\ currentView = VIEW_MODE_WORLD

ResultLayers == {m \in mapLayers : m.kind = "res"}

\* C5: after addRestaurantMarkers is called on an initialised local surface
\* with a list of length N, the surface holds exactly N result markers, the
\* ones created from that list in order, and none of an earlier list.
C5_ReplaceMarkersExact ==
    (map /\ restaurants.from # 0) =>
        /\ Len(markers) = Len(restaurants.ids)
        /\ \A i \in 1..Len(markers) :
              markers[i] = Marker("res", restaurants.ids[i], restaurants.from,
                                  NonFinite)
        /\ ResultLayers = Range(markers)
        /\ Cardinality(ResultLayers) = Len(restaurants.ids)

\* a one-restaurant list has replaced the markers of an earlier result
C5_Witness ==
    /\ map
    /\ restaurants.from = 2
    /\ Len(restaurants.ids) = 1
    /\ fetches[1].status = "done"
    /\ Cardinality(ResultLayers) = 1


AllResolved == \A k \in 1..Len(fetches) : fetches[k].status = "done"

\* the coordinate searched by the most recently started fetch
LastSearched == fetches[Len(fetches)].coord

\* C2: whatever order the fetches complete in, the sidebar list and the
\* local marker set end up holding the results of the most recently started
\* search (a result of an older search is discarded).  Stated on the
\* coordinate searched, so that two searches of one place count as one.
C2_LastStartedSearchWins ==
    (pc = "ready" /\ fetches # <<>> /\ AllResolved) =>
        /\ fetches[restaurants.from].coord = LastSearched
        /\ \A i \in 1..Len(markers) :
              fetches[markers[i].batch].coord = LastSearched

\* a step that selects an upcoming trip with a finite coordinate: the
\* default selection of App.init or a change of the trip selector
SelectsUpcoming(trip) ==
    /\ Finite(trip.coord)
    /\ \/ AppInit /\ selectValue' = Context("upcoming", trip.id)
       \/ SelectChange("upcoming", trip.id)

\* C6: selecting an upcoming trip with a finite coordinate (the default
\* selection of init included, made while the view is WORLD) starts exactly
\* one restaurant fetch, for that trip's coordinate, and the fetch leads to
\* exactly one marker replacement on the local surface, whichever view is
\* visible.
C6_SelectionFetchesAndReplacesOnce ==
    [][ /\ \A i \in 1..Len(MOCK_UPCOMING_TRIPS) :
              SelectsUpcoming(MOCK_UPCOMING_TRIPS[i]) =>
                  fetches' = Append(fetches, Fetch(MOCK_UPCOMING_TRIPS[i].coord))
        /\ \A k \in 1..Len(fetches) :
              /\ fetches'[k].coord = fetches[k].coord
              /\ fetches[k].status = "done" => fetches'[k] = fetches[k]
              /\ (fetches[k].status = "pending" /\ fetches'[k].status = "done") =>
                    /\ fetches'[k].replaces = 1
                    /\ restaurants'.from = k
                    /\ map => \A i \in 1..Len(markers') : markers'[i].batch = k
        /\ \A k \in 1..Len(fetches') :
              fetches'[k].status = "pending" => fetches'[k].replaces = 0
      ]_vars

\* the default selection's fetch has resolved and replaced the markers
\* while the world view has been showing all along
C6_Witness ==
    /\ lastViewOp.op = "none"
    /\ Visible = {"worldView"}
    /\ activeSearchContext = Context("upcoming", 1)
    /\ fetches = << [coord |-> 1, status |-> "done", replaces |-> 1] >>
    /\ map
    /\ restaurants.from = 1
    /\ Len(markers) = 2

(***************************************************************************)
(* Properties of the trip selector (SpecSelect) and of formatDateRange     *)
(* (SpecFormat)                                                            *)
(***************************************************************************)
\* the calendar day a date string names, and today's calendar day
WrittenDay(s) == DaysFromCivil(s.y, s.m, s.d)
TodayDay == LocalDay(now, tz)

Dated(trips) == {i \in 1..Len(trips) : trips[i].startDate.kind = "iso"}

\* the upcoming trips that start today or later
TodayOrLater ==
    {i \in Dated(MOCK_UPCOMING_TRIPS) :
        WrittenDay(MOCK_UPCOMING_TRIPS[i].startDate) >= TodayDay}

\* index i is selected, in the list of the given type
Selected(type, i) ==
    /\ activeSearchContext = Context(type, i)
    /\ selectValue = Context(type, i)

\* C7: the default selection is, among the upcoming trips with a start
\* date, one with the earliest start date that is today or later, by
\* calendar day: a trip that starts today qualifies, and a trip that starts
\* before today never wins over one that starts today or later.
C7_DefaultIsNextUpcoming ==
    (pc = "ready" /\ TodayOrLater # {}) =>
        \E i \in TodayOrLater :
            /\ Selected("upcoming", i)
            /\ \A j \in TodayOrLater :
                  WrittenDay(MOCK_UPCOMING_TRIPS[i].startDate)
                      <= WrittenDay(MOCK_UPCOMING_TRIPS[j].startDate)

\* every upcoming trip that has a start date starts before today
AllBeforeToday ==
    /\ Dated(MOCK_UPCOMING_TRIPS) # {}
    /\ TodayOrLater = {}

\* C8: when every upcoming trip starts before today, the default selection
\* is the upcoming trip with the earliest start date, never a past trip.
C8_FallbackEarliestUpcoming ==
    (pc = "ready" /\ AllBeforeToday) =>
        \E i \in Dated(MOCK_UPCOMING_TRIPS) :
            /\ Selected("upcoming", i)
            /\ \A j \in Dated(MOCK_UPCOMING_TRIPS) :
                  WrittenDay(MOCK_UPCOMING_TRIPS[i].startDate)
                      <= WrittenDay(MOCK_UPCOMING_TRIPS[j].startDate)

\* both upcoming trips lie before today, the second is the earlier one,
\* and past trips exist
C8_Witness ==
    /\ pc = "ready"
    /\ AllBeforeToday
    /\ Len(MOCK_TRAVEL_HISTORY) > 0
    /\ Dated(MOCK_UPCOMING_TRIPS) = {1, 2}
    /\ WrittenDay(MOCK_UPCOMING_TRIPS[2].startDate)
          < WrittenDay(MOCK_UPCOMING_TRIPS[1].startDate)
    /\ Selected("upcoming", 2)

\* C9: with no upcoming trips the default selection is the past trip with
\* the latest start date; with both lists empty no search context is set
\* and no restaurant fetch is started.
C9_FallbackMostRecentPast ==
    (pc = "ready" /\ MOCK_UPCOMING_TRIPS = <<>>) =>
        IF MOCK_TRAVEL_HISTORY # <<>>
        THEN \E i \in 1..Len(MOCK_TRAVEL_HISTORY) :
                /\ Selected("past", i)
                /\ \A j \in 1..Len(MOCK_TRAVEL_HISTORY) :
                      WrittenDay(MOCK_TRAVEL_HISTORY[j].startDate)
                          <= WrittenDay(MOCK_TRAVEL_HISTORY[i].startDate)
        ELSE /\ activeSearchContext = NoContext
             /\ userLocation = NonFinite
             /\ fetches = <<>>

\* no upcoming trip, and the later of two past trips is second in the list
C9_Witness ==
    /\ pc = "ready"
    /\ MOCK_UPCOMING_TRIPS = <<>>
    /\ Len(MOCK_TRAVEL_HISTORY) = 2
    /\ WrittenDay(MOCK_TRAVEL_HISTORY[1].startDate)
          < WrittenDay(MOCK_TRAVEL_HISTORY[2].startDate)
    /\ Selected("past", 2)
    /\ Len(fetches) = 1

\* the text the three templates give for the day, month and year written in
\* two ISO date strings
WrittenRange(s, e) ==
    IF s.y = e.y /\ s.m = e.m
    THEN DateText("md-d,y", MonthShort(s.m), s.d, s.y, "", e.d, 0,
                  NoDate, NoDate)
    ELSE IF s.y = e.y
    THEN DateText("md-md,y", MonthShort(s.m), s.d, s.y, MonthShort(e.m), e.d, 0,
                  NoDate, NoDate)
    ELSE DateText("md,y-md,y", MonthShort(s.m), s.d, s.y, MonthShort(e.m), e.d,
                  e.y, NoDate, NoDate)

\* C10: formatDateRange(start, end) prints the day, month and year written
\* in two parseable ISO dates, in the template their shared year and month
\* select; if either is unparseable it returns the two raw strings joined.
C10_FormatPrintsWrittenDates ==
    (pc = "ready" /\ Len(MOCK_UPCOMING_TRIPS) = 1) =>
        LET s == MOCK_UPCOMING_TRIPS[1].startDate
            e == MOCK_UPCOMING_TRIPS[1].endDate
        IN  activeLabel =
                IF s.kind = "iso" /\ e.kind = "iso"
                THEN WrittenRange(s, e)
                ELSE DateText("raw", "", 0, 0, "", 0, 0, s, e)

(***************************************************************************)
(* Properties of API.fetchRestaurants (SpecApi)                            *)
(***************************************************************************)
\* a distance field is the great-circle distance of the two latitudes
\* rounded to whole metres
IsRoundedDistance(distance, lat1, lat2) ==
    LET exact == (IF lat2 >= lat1 THEN lat2 - lat1 ELSE lat1 - lat2)
                    * MetersPerDegree
        diff  == distance * 100 - exact
    IN  2 * diff <= 100 /\ 2 * diff > -100

\* C11: API.fetchRestaurants(lat, lng) never rejects to its caller; when the
\* proxy is not configured, or the request fails, throws or answers a non-OK
\* status or an unusable body, the call resolves with the fallback
\* restaurants, each with its distance recomputed from (lat, lng).
C11_FetchNeverRejectsAndFallsBack ==
    \A k \in 1..Len(apiCalls) :
        LET call == apiCalls[k]
        IN  /\ call.stage # "rejected"
            /\ (call.stage = "resolved"
                  /\ call.upstream \in UpstreamFailures \cup {"unconfigured"}) =>
                  /\ Len(call.result) = Len(MOCK_RESTAURANTS)
                  /\ \A i \in 1..Len(call.result) :
                        /\ call.result[i].id = MOCK_RESTAURANTS[i].id
                        /\ IsRoundedDistance(call.result[i].distance,
                                             call.latitude,
                                             MOCK_RESTAURANTS[i].lat)

\* a call at latitude 40 whose proxy request answered a non-OK status has
\* resolved with the fallback list, distances 2 and 3 degrees of arc
C11_Witness ==
    \E k \in 1..Len(apiCalls) :
        /\ apiCalls[k].stage = "resolved"
        /\ apiCalls[k].upstream = "notOk"
        /\ apiCalls[k].latitude = 40
        /\ apiCalls[k].result =
              << Restaurant(1, 38, 222390), Restaurant(2, 37, 333585) >>

(***************************************************************************)
(* Properties of the Yelp proxy (SpecProxy)                                *)
(***************************************************************************)
\* the value is a finite number, written as a JSON number or as a numeral
DenotesFiniteNumber(v) == v.t \in {"number", "numeral"}

\* the request was answered 400 with an {error} body and no upstream call
Rejected400(x) ==
    x.stage = "answered" /\ x.status = 400 /\ x.error /\ ~x.upstream

\* an optional field is valid: absent, or a radius in (0, 40000], or a
\* positive limit
RadiusValid(v) ==
    v = JsUndefined \/ (DenotesFiniteNumber(v) /\ v.n > 0 /\ v.n <= 40000)
LimitValid(v) == v = JsUndefined \/ (DenotesFiniteNumber(v) /\ v.n > 0)

\* C12: with the API key configured, the proxy answers 400 with an {error}
\* body and without an upstream call whenever latitude or longitude is
\* missing or not a finite number, and a request whose latitude and
\* longitude are finite numbers (0 included) and whose optional fields are
\* valid is not answered 400.
C12_CoordinatesValidated ==
    YELP_API_KEY =>
        \A k \in 1..Len(exchanges) :
            LET x == exchanges[k]
                finite == /\ DenotesFiniteNumber(x.body.latitude)
                          /\ DenotesFiniteNumber(x.body.longitude)
            IN  /\ ~finite => Rejected400(x)
                /\ (finite /\ RadiusValid(x.body.radius)
                           /\ LimitValid(x.body.limit)) => ~Rejected400(x)

\* the number a supplied optional field is read as lies in the given range
ReadsInRange(v, max) ==
    LET value == ToNumber(v)
    IN  value.finite /\ value.n > 0 /\ value.n <= max

PositionRequestFails == \E code \in GeolocationErrorCodes : GeolocationError(code)

\* C14: when a position request fails (permission denied, timeout) while a
\* search center exists, the search center, its pin, the restaurant list
\* and the markers stay as they are and no restaurant fetch is started.
C14_GpsFailureKeepsSearchCenter ==
    [][ (PositionRequestFails /\ userLocation # NonFinite) =>
            UNCHANGED <<userLocation, userMarker, mapLayers, mapCenter,
                        restaurants, markers, fetches>>
      ]_vars

\* a position request has timed out after the default trip was selected
\* and its restaurants were listed
C14_Witness ==
    /\ geoLog = 3
    /\ geoPending = 0
    /\ userLocation = 1
    /\ userMarker = Marker("pin", 0, 1, 1)
    /\ fetches = << [coord |-> 1, status |-> "done", replaces |-> 1] >>
    /\ restaurants.from = 1

\* C15: when a position request fails, or geolocation is unsupported, and
\* no search center exists yet, a restaurant fetch for the default
\* coordinate is started; with an existing search center none is started.
C15_FailureFallsBackToDefault ==
    [][ (PositionRequestFails \/ (RequestUserLocation /\ ~geolocation)) =>
            IF userLocation = NonFinite
            THEN fetches' = Append(fetches, Fetch(DEFAULT_COORD))
            ELSE fetches' = fetches
      ]_vars

\* a step that applies the selection of the upcoming trip: the default
\* selection of App.init or a change of the trip selector
AppliesSelection(trip) ==
    \/ AppInit /\ selectValue' = Context("upcoming", trip.id)
    \/ SelectChange("upcoming", trip.id)

\* C16: applying the selection of a trip whose latitude or longitude is not
\* a finite number leaves the active search context, the search center, its
\* pin and the restaurant list as they were and starts no fetch.
C16_NoCoordinateSelectionEmitsNothing ==
    [][ \A i \in 1..Len(MOCK_UPCOMING_TRIPS) :
            (~Finite(MOCK_UPCOMING_TRIPS[i].coord)
                /\ AppliesSelection(MOCK_UPCOMING_TRIPS[i])) =>
                UNCHANGED <<activeSearchContext, userLocation, userMarker,
                            restaurants, fetches>>
      ]_vars

\* a value no number can be read from: undefined, NaN, an infinity, text
\* that spells no number
Unconvertible(v) == v.t \in {"undefined", "NaN", "Infinity", "text"}

\* a direct call of setSearchCenter with these arguments
CenterCalls == {CenterCall(lat, lng) : lat \in CenterValues,
                                      lng \in {JsNumber(5), JsInfinity}}

C18_OneActiveCard ==
    /\ Cardinality(activeCards) <= 1
    /\ lastHighlight # NoKey => activeCards = {lastHighlight}

\* toggleView() runs in a document that lacks worldView, localView or the
\* toggle button
ToggleWithoutRequired ==
    /\ ToggleView
    /\ ~({"worldView", "localView", "viewToggle"} \subseteq present)

\* C19: if a required view container (worldView or localView) or the toggle
\* button is absent from the document, toggleView() is a no-op: it raises
\* no error and changes neither the current view nor the visibility of any
\* container.
C19_ToggleWithoutElementsIsNoOp ==
    [][ ToggleWithoutRequired =>
            /\ lastError' = "none"
            /\ UNCHANGED <<currentView, display>>
      ]_vars

\* the markers on the world surface: the entities of the globe; the
\* program adds no layer but the tiles to the 2D fallback map
WorldSurfaceMarkers == IF viewer THEN viewerEntities ELSE {}

\* the trips of the past and upcoming lists
ListedTrips ==
    {TripKey(TRUE, MOCK_TRAVEL_HISTORY[i].id) :
        i \in 1..Len(MOCK_TRAVEL_HISTORY)}
    \cup {TripKey(FALSE, MOCK_UPCOMING_TRIPS[i].id) :
            i \in 1..Len(MOCK_UPCOMING_TRIPS)}

\* the trip markers among the markers of a surface
TripMarkers(shown) == {e \in shown : e.kind = "trip"}

\* C20: after WorldMap.init has completed with a usable surface (the 3D
\* globe, or the 2D fallback), the world surface holds exactly one trip
\* marker per trip of the past and upcoming lists, whatever nearby-venue
\* markers are shown or cleared.
C20_OneTripMarkerPerTrip ==
    (pc = "ready" /\ (viewer \/ worldLeaflet)) =>
        /\ \A c \in ListedTrips :
              Cardinality({e \in WorldSurfaceMarkers :
                              e.kind = "trip" /\ e.trip = c}) = 1
        /\ TripMarkers(WorldSurfaceMarkers) \subseteq
              {Entity("trip", c, 0) : c \in ListedTrips}
        /\ Cardinality(TripMarkers(WorldSurfaceMarkers))
              = Len(MOCK_TRAVEL_HISTORY) + Len(MOCK_UPCOMING_TRIPS)

\* the world layer is disabled: neither the globe nor the 2D map exists
WorldDisabled == ~viewer /\ ~worldLeaflet

StartsSearch == Len(fetches') = Len(fetches) + 1

\* a step in which a trip selection is applied
BySelection ==
    \/ AppInit
    \/ ToggleView
    \/ \E type \in {"upcoming", "past"} : \E id \in 1..5 : SelectChange(type, id)

\* C22: each event that starts a restaurant search (trip selection, GPS
\* location, search-this-area) replaces the active search context, so that
\* App.activeSearchContext together with MapModule.userLocation describes
\* the origin and the coordinate of the most recently started search.
C22_ContextDescribesLastSearch ==
    [][ StartsSearch =>
            /\ userLocation' = fetches'[Len(fetches')].coord
            /\ IF BySelection
               THEN activeSearchContext' = selectValue'
               ELSE activeSearchContext'.type \notin {"upcoming", "past"}
      ]_vars

(***************************************************************************)
(* Properties of the resize timers (SpecResize)                            *)
(***************************************************************************)
\* C23: whenever a deferred resize scheduled by toggleView() fires for a
\* map surface, the container of that surface is the visible one at that
\* moment, for any sequence of toggleView() / showTravelLog() calls.
C23_ResizeOnVisibleSurface ==
    [][ ResizeTimerFires => Visible = {Head(resizeTimers)} ]_vars

(***************************************************************************)
(* Properties of the nearby venues (SpecClicks)                            *)
(***************************************************************************)
\* the nearby markers shown on the globe
NearbyOnGlobe == {e \in viewerEntities : e.kind # "trip"}

\* C24: after any sequence of trip clicks on the 3D world surface, once
\* every pending post-fly timer has fired, the nearby-venue markers are
\* exactly the hotel marker and the generated venues of the most recently
\* clicked trip; at no moment do they hold venues of two different trips.
C24_NearbyOfLastClickedTrip ==
    viewer =>
        /\ NearbyOnGlobe = restaurantEntities
        /\ \A a, b \in NearbyOnGlobe : a.trip = b.trip
        /\ (nearbyTimers = <<>> /\ lastHighlight # NoKey) =>
              /\ \A e \in NearbyOnGlobe : e.trip = lastHighlight
              /\ Cardinality({e \in NearbyOnGlobe : e.kind = "hotel"}) = 1
              /\ {e.n : e \in {v \in NearbyOnGlobe : v.kind = "venue"}}
                    = 1..NearbyPerCity
              /\ Cardinality(NearbyOnGlobe) = 1 + NearbyPerCity

\* an upcoming trip and then past trip 5 have been clicked on the globe,
\* and both timers have fired
C24_Witness ==
    /\ viewer
    /\ nearbyTimers = <<>>
    /\ lastHighlight = TripKey(TRUE, 5)
    /\ TripKey(FALSE, 1) \in activeCards
    /\ Entity("venue", TripKey(TRUE, 5), NearbyPerCity) \in viewerEntities

(***************************************************************************)
(* Properties of the search-center pin (SpecLocate)                        *)
(***************************************************************************)
\* the search-center pins shown on the local surface
Pins == {m \in mapLayers : m.kind = "pin"}

\* C25: after any sequence of setSearchCenter calls, position request
\* outcomes and marker replacements, the local surface shows at most one
\* search-center pin, located at the most recently set search center; a
\* marker replacement neither removes nor duplicates it.
C25_OneSearchCenterPin ==
    /\ Cardinality(Pins) <= 1
    /\ \A p \in Pins : p.at = userLocation /\ p = userMarker
    /\ (map /\ userLocation # NonFinite) => Pins = {userMarker}

\* the pin stands at the reported position, which replaced the default
\* trip's, and the restaurants of that second search are on the map
C25_Witness ==
    /\ userLocation = 4
    /\ Pins = {userMarker}
    /\ userMarker.at = 4
    /\ Len(fetches) >= 2
    /\ fetches[1].coord = 1
    /\ fetches[2].status = "done"
    /\ Len(markers) = MaxResults

(***************************************************************************)
(* Properties of the marker popups (SpecPopup)                             *)
(***************************************************************************)
\* the rendered markers bound to a restaurant
MarkersOf(restaurantId) ==
    {m \in Range(markers) : m.rid = restaurantId /\ m \in mapLayers}

\* C26: openMarkerPopup(restaurantId, restaurants) opens the popup of the
\* marker created for the restaurant with that id by the last marker
\* replacement and pans to that restaurant, for every list passed as
\* restaurants; when no rendered marker is bound to the id, no popup is
\* opened and the view is not moved.
C26_PopupOfBoundMarker ==
    [][ \A id \in 1..MaxResults : \A list \in PassedLists :
            (OpenMarkerPopup(id, list)
                /\ \E i \in 1..Len(list) : list[i] = id) =>
                IF MarkersOf(id) # {}
                THEN /\ popup' \in MarkersOf(id)
                     /\ mapCenter' = RestaurantCoord(id)
                ELSE UNCHANGED <<popup, mapCenter>>
      ]_vars

(***************************************************************************)
(* Properties of the proxy cache (SpecProxy)                               *)
(***************************************************************************)
\* the time since setCachedResponse stored an entry
StoredAgo(c) == serverNow - (c.expiresAt - CACHE_TTL_MS)

\* a step in which the handler takes a valid search with these parameters
SearchArrives(body) ==
    /\ PostYelpSearch(body)
    /\ YELP_API_KEY
    /\ Validate(body) = "ok"

\* the request of this step is answered with the body of entry c, no fetch
\* to Yelp is made for it and the store is left as it is
AnsweredFromStore(c) ==
    LET x == exchanges'[Len(exchanges')]
    IN  /\ x.stage = "answered"
        /\ x.status = 200
        /\ ~x.error
        /\ x.data = c.data
        /\ ~x.upstream
        /\ cache' = cache

\* entry c is deleted in this step and its request is sent on to Yelp
EvictedAndCalledUpstream(c) ==
    LET x == exchanges'[Len(exchanges')]
    IN  /\ c \notin cache'
        /\ x.stage = "upstream"
        /\ x.upstream

\* an entry enters the store only with the 2xx answer of Yelp to a request
\* with its parameters
StoredOnlyOnSuccess ==
    \A c \in cache' \ cache :
        \E k \in 1..Len(exchanges) :
            /\ exchanges[k].stage = "upstream"
            /\ exchanges[k].params = c.key
            /\ exchanges'[k].stage = "answered"
            /\ exchanges'[k].status = 200
            /\ ~exchanges'[k].error
            /\ exchanges'[k].data = c.data

\* C27 (amended): a Yelp search whose normalised parameters equal those of
\* a successful response stored no more than the cache TTL ago is answered
\* with the stored body without any upstream call; when more than the TTL
\* has elapsed the entry is evicted by the next such request, which calls
\* upstream again; failed upstream responses are never stored.
C27_CacheUpToTtl ==
    [][ /\ \A body \in RequestBodies :
              SearchArrives(body) =>
                  \A c \in {d \in cache : d.key = NormalizedParams(body)} :
                      IF StoredAgo(c) <= CACHE_TTL_MS
                      THEN AnsweredFromStore(c)
                      ELSE EvictedAndCalledUpstream(c)
        /\ StoredOnlyOnSuccess
      ]_vars

\* a search was answered from the store exactly one TTL after the response
\* was stored, and a failed upstream response left the store empty earlier
C27_Witness ==
    /\ Len(exchanges) = 2
    /\ exchanges[1].upstream /\ exchanges[1].status = 200
    /\ exchanges[2].stage = "answered" /\ ~exchanges[2].upstream
    /\ exchanges[2].status = 200
    /\ exchanges[2].params = exchanges[1].params
    /\ exchanges[2].data = exchanges[1].data
    /\ \E c \in cache : c.key = exchanges[2].params /\ c.expiresAt = serverNow

\* C27: a Yelp search whose normalised parameters equal those of a
\* successful response stored less than the cache TTL ago is answered with
\* the stored body without any upstream call; once the TTL has elapsed the
\* entry is evicted and the next such request calls upstream again; failed
\* upstream responses are never stored.
C27_CacheWithinTtl ==
    [][ /\ \A body \in RequestBodies :
              SearchArrives(body) =>
                  \A c \in {d \in cache : d.key = NormalizedParams(body)} :
                      IF StoredAgo(c) < CACHE_TTL_MS
                      THEN AnsweredFromStore(c)
                      ELSE EvictedAndCalledUpstream(c)
        /\ StoredOnlyOnSuccess
      ]_vars

(***************************************************************************)
(* Properties of the one-time setup of the location controls (Spec)        *)
(***************************************************************************)
\* what a trip selection writes: the selector, the label, the context, the
\* search center with its pin, and the fetches started
SelectionState ==
    <<selectValue, activeLabel, activeSearchContext, userLocation,
      userMarker, fetches>>

\* C28: across any sequence of App.init, toggleView() and showTravelLog()
\* calls, once the trip selector exists its options are built and the
\* default trip is applied exactly once (by App.init); re-entering the
\* local view later never re-applies the default selection, never starts
\* another fetch and never replaces a search context chosen in between.
C28_DefaultAppliedOnce ==
    [][ "tripLocationSelect" \in present =>
          /\ AppInit =>
                /\ ~locationControlsInitialized
                /\ locationControlsInitialized'
                /\ activeSearchContext' =
                      Context("upcoming",
                              GetNextUpcomingTrip(MOCK_UPCOMING_TRIPS, now, tz).id)
                /\ Len(fetches') = Len(fetches) + 1
          /\ pc = "ready" => locationControlsInitialized
          /\ (ToggleView \/ ShowTravelLog) =>
                UNCHANGED <<SelectionState, locationControlsInitialized>>
      ]_vars

\* the local view was opened again by toggleView after the user had chosen
\* another trip than the default: the chosen context and its fetch stand
C28_Witness ==
    /\ lastViewOp.op = "toggleView"
    /\ lastViewOp.logFrom # ""
    /\ currentView = VIEW_MODE_LOCAL
    /\ locationControlsInitialized
    /\ activeSearchContext = Context("upcoming", 2)
    /\ Len(fetches) = 2

(***************************************************************************)
(* Properties of the TripIt request tokens (SpecTripit)                    *)
(***************************************************************************)
\* the earlier callbacks that arrived with a token while it was stored
UsedBefore(oauthToken) ==
    {k \in 1..Len(callbacks) :
        callbacks[k].token = oauthToken /\ callbacks[k].found}

\* C29: a TripIt request token is single-use: once /api/tripit/callback has
\* been called with a stored oauth_token, any later callback with the same
\* token is answered "Unknown or expired request token" and creates no
\* session, whether the first exchange succeeded, failed or is still
\* awaited; a session id is created only by a callback whose exchange
\* succeeded, one session for each.
C29_RequestTokenSingleUse ==
    [][ /\ \A oauthToken \in CallbackTokens :
              (GetTripitCallback(oauthToken) /\ UsedBefore(oauthToken) # {})
                  => /\ callbacks'[Len(callbacks')] =
                          FailurePage(oauthToken, FALSE, 0, "unknownOrExpired")
                     /\ UNCHANGED <<tripitAccessTokens, tripitRequestTokens>>
        /\ \A oauthToken \in CallbackTokens :
              Cardinality(UsedBefore(oauthToken)) <= 1
        /\ \A s \in tripitAccessTokens' \ tripitAccessTokens :
              \E k \in 1..Len(callbacks) :
                  /\ AccessTokenResponds(k, "ok")
                  /\ callbacks[k].found
                  /\ callbacks'[k].message = "connected"
                  /\ callbacks'[k].sessionId = s.sessionId
                  /\ s.token = callbacks[k].token
                  /\ tripitAccessTokens' = tripitAccessTokens \cup {s}
        /\ \A k \in 1..Len(callbacks') :
              callbacks'[k].sessionId # NoSession =>
                 /\ callbacks'[k].message = "connected"
                 /\ \E s \in tripitAccessTokens' :
                       s.sessionId = callbacks'[k].sessionId
      ]_vars

\* a token was exchanged with success by the first callback and refused to
\* the second, and only the one session exists
C29_Witness ==
    /\ Len(callbacks) = 2
    /\ callbacks[1].token = callbacks[2].token
    /\ callbacks[1].found /\ callbacks[1].message = "connected"
    /\ callbacks[2].message = "unknownOrExpired"
    /\ callbacks[2].sessionId = NoSession
    /\ Cardinality(tripitAccessTokens) = 1

\* C30: a TripIt request token has a 10-minute lifetime:
\* /api/tripit/callback never exchanges a stored request token that was
\* issued more than 10 minutes earlier.
C30_RequestTokenLifetime ==
    [][ \A oauthToken \in CallbackTokens :
            GetTripitCallback(oauthToken) =>
                LET c == callbacks'[Len(callbacks')]
                IN  c.found => c.age <= TRIPIT_REQUEST_TOKEN_TTL_MS
      ]_vars

====
